---------------------------- MODULE Spec2Model ----------------------------
(***************************************************************************)
(* A model of the O3 code analysis tool (scripts/utils/o3_code_analyzer.py *)
(* and scripts/utils/o3_code_analyzer_enhanced.py): the request dispatcher *)
(* with its fallback, the extraction of a named function, the discovery of *)
(* a project's files, the report writer with its consolidated report, and  *)
(* the multi-unit workflows.                                               *)
(*                                                                         *)
(* Text is modelled as a sequence of tokens.  A token is a string; what    *)
(* the code does with a text (split, count, search, replace) is done here  *)
(* on the token sequence.  Both analyzers are modelled: "original" is      *)
(* o3_code_analyzer.py and "enhanced" is o3_code_analyzer_enhanced.py.     *)
(***************************************************************************)
EXTENDS Integers, Sequences, FiniteSets, TLC

\* ------------------------------------------------------------------ bounds
\* Words of a description.
MaxDescWords == 2
\* Findings in one backend reply.
MaxReplyFindings == 1
\* Dispatcher calls in one behaviour of SpecDispatch.
MaxCalls == 2

VARIABLES
  \* --- the dispatcher (SpecDispatch)
  analyzer,      \* "original" or "enhanced": which O3Analyzer class runs
  description,   \* the description argument, a sequence of words
  ncalls,        \* calls of analyze_code_snippet made so far (also the clock)
  call,          \* the last call: its inputs and the backend's outcome
  result,        \* what the last call returned
  fallbacks,     \* findings of the earlier calls whose backend attempt failed
  \* --- what a workflow does to the world (every workflow specification)
  clock,         \* the clock, in seconds
  requests,      \* the requests sent to the backend, in order
  files,         \* the writes to the output directory, in order
  log,           \* the messages printed, in order
  pc,            \* where the workflow is: "start", ..., "done" or "raised"
  idx,           \* the units the workflow's current loop has gone through
  \* --- the function workflow (SpecFunction)
  source,        \* the file's lines, or Unreadable
  function_name, \* the function asked for
  extension,     \* the file's extension
  returned,      \* what analyze_function returned
  \* --- the original's full run (SpecFull, SpecReport)
  reflection_lib,\* contracts/libraries/Reflection.sol: its lines, or Unreadable
  dove_contract, \* contracts/DOVE.sol: its lines, or Unreadable
  analyses,      \* the analyses made so far, None for a unit that gave none
  reports,       \* the list `reports`: names of the report files saved
  critical,      \* critical_findings of the consolidated report
  \* --- the enhanced analyzer's project and batch runs (SpecProject, ...)
  command,       \* args.command: the workflow that runs
  disk,          \* the states a file of the run may be found in when read
  backend,       \* the replies the backend may give in the run
  directory,     \* the tree at directory_path, or NotADirectory
  exclude_patterns, \* the exclude_patterns argument, <<>> for None
  file_list,     \* the batch run's file_list
  code_files,    \* the project run's code_files
  visited,       \* the directories os.walk has listed, in order
  observed,      \* what each file read so far was found to be
  results,       \* individual_reports / results: <<path, report>> pairs
  report_path,   \* project_report_path / batch_report_path
  ticks,         \* the seconds the clock may advance between two writes of a unit
  sent_at,       \* the clock at each request sent to the backend, in order
  \* --- the start of the process (SpecStartup)
  api_key,       \* the --api-key option, NotGiven when it is left out
  env_key,       \* the credential environment variable, NotGiven when unset
  exit_status,   \* the status of sys.exit, Running while the process runs
  output_dir_made \* whether os.makedirs(self.output_dir) has run

dvars == <<description, ncalls, call, result, fallbacks>>
wvars == <<clock, requests, sent_at, files, log, pc, idx>>
fvars == <<source, function_name, extension, returned>>
uvars == <<reflection_lib, dove_contract, analyses, reports, critical>>
pvars == <<disk, ticks, backend, directory, exclude_patterns, file_list, code_files, visited,
           observed, results, report_path>>
svars == <<api_key, env_key, exit_status, output_dir_made>>
vars == <<analyzer, command, dvars, wvars, fvars, uvars, pvars, svars>>

\* The variables each specification leaves alone.
notDispatch == <<command, clock, sent_at, files, log, pc, idx, fvars, uvars, pvars, svars>>
notFunction == <<command, dvars, uvars, pvars, svars>>
notFull == <<command, dvars, fvars, pvars, svars>>
notProject == <<analyzer, command, dvars, fvars, uvars, svars>>

\* ----------------------------------------------------------------- helpers
Range(s) == {s[i] : i \in 1..Len(s)}

SeqsUpTo(S, n) == UNION {[1..k -> S] : k \in 0..n}

\* s occurs in t as a contiguous run starting at position i (1-based).
OccursAt(s, t, i) ==
  /\ i >= 1
  /\ i + Len(s) - 1 <= Len(t)
  /\ \A k \in 1..Len(s) : t[i + k - 1] = s[k]

\* Python's `s in t` for texts.
IsSubstring(s, t) == \E i \in 1..(Len(t) + 1) : OccursAt(s, t, i)

\* ------------------------------------------------------------ descriptions
\* The words a description is made of.  A word is one token; what Python's
\* str.lower() and the substring test `kw in text` do on it is tabulated.
Words == {"Tax", "syntax", "reflection", "Transfer", "_update", "file"}

\* str.lower() of one word.
LowerWord(w) ==
  CASE w = "Tax" -> "tax"
    [] w = "Transfer" -> "transfer"
    [] w = "Reflection" -> "reflection"
    [] w = "getEarlySellTaxFor" -> "getearlyselltaxfor"
    [] w = "High" -> "high"
    [] w = "Medium" -> "medium"
    [] w = "Low" -> "low"
    [] w = "Info" -> "info"
    [] OTHER -> w

\* The keyword kw occurs in the (lower-cased) word w: Python's `kw in w`.
KeywordInWord(kw, w) ==
  \/ kw = w
  \/ kw = "tax" /\ w \in {"syntax", "getearlyselltaxfor"}

\* description.lower()
Lower(desc) == [i \in 1..Len(desc) |-> LowerWord(desc[i])]

\* `kw in description.lower()`
KeywordIn(kw, desc) == \E i \in 1..Len(desc) : KeywordInWord(kw, Lower(desc)[i])

Descriptions == SeqsUpTo(Words, MaxDescWords)

\* ---------------------------------------------------------------- findings
Severities == {"high", "medium", "low", "info"}

Finding(sev, cat, title, desc, lines, rec) ==
  [severity |-> sev, category |-> cat, title |-> title, description |-> desc,
   line_numbers |-> lines, recommendation |-> rec]

\* The fixed table of canned findings (_simulate_analysis_response).
ReflectionFindings ==
  << Finding("medium", "security",
             <<"Potential Integer Overflow in Reflection Calculation">>,
             <<"The reflection calculation involves very large numbers that could potentially overflow.">>,
             <<42, 56>>,
             <<"Consider using SafeMath or Solidity 0.8.0+ built-in overflow checks.">>),
     Finding("low", "gas_optimization",
             <<"Inefficient Storage Access Pattern">>,
             <<"Multiple reads from the same storage variables could be optimized.">>,
             <<78, 79, 80>>,
             <<"Cache storage variables in memory before multiple reads.">>) >>

TaxFindings ==
  << Finding("low", "security",
             <<"Timestamp Dependence">>,
             <<"The tax calculation relies on block.timestamp which can be manipulated slightly by miners.">>,
             <<25>>,
             <<"For timing that requires precision under 15 seconds, consider additional validation.">>),
     Finding("info", "logic_errors",
             <<"Tax Rate Boundary Condition">>,
             <<"The tax rate transitions may create edge cases exactly at day boundaries.">>,
             <<30, 32, 34>>,
             <<"Consider using strictly greater than (>) instead of >= for clearer boundary definition.">>) >>

TransferFindings ==
  << Finding("high", "security",
             <<"Potential Reentrancy Risk">>,
             <<"Ensure state changes happen before external calls to prevent reentrancy attacks.">>,
             <<110, 125>>,
             <<"Follow the checks-effects-interactions pattern rigorously.">>) >>

\* A JSON value found under the key 'findings': a list of findings, null,
\* some other value (a string, a number, an object), or no key at all.
ListValue(items) == [tag |-> "list", items |-> items]
NullValue == [tag |-> "null", items |-> <<>>]
OtherValue == [tag |-> "string", items |-> <<>>]
AbsentValue == [tag |-> "absent", items |-> <<>>]


\* ------------------------------------------------------- the backend's reply
\* Findings a backend reply may carry: a well-formed one, one with a severity
\* label outside the four the prompt names, one with no severity key.
BackendFindings ==
  { Finding("high", "security", <<"Unchecked call">>, <<"The return value is ignored.">>,
            <<7>>, <<"Check the return value.">>),
    Finding("critical", "security", <<"Unchecked call">>, <<"The return value is ignored.">>,
            <<7>>, <<"Check the return value.">>),
    Finding("absent", "security", <<"Unchecked call">>, <<"The return value is ignored.">>,
            <<>>, <<"Check the return value.">>) }

\* What one request to the backend can end in:
\*   transport_error     urlopen raises URLError (no connection, timeout)
\*   http_error          urlopen raises HTTPError (non-success status)
\*   invalid_json_body   the response body is not JSON
\*   no_choices          the body has no 'choices', or an empty list
\*   content_not_json    choices[0].message.content is not JSON (plain text)
\*   content_not_object  the content is JSON but no object (a list, a number)
\*   content_object      the content is a JSON object; findings is the value
\*                       under its key 'findings'
FailureKinds ==
  {"transport_error", "http_error", "invalid_json_body", "no_choices"}
ContentKinds == {"content_not_json", "content_not_object", "content_object"}

Reply(kind, findings) == [kind |-> kind, findings |-> findings]

Replies ==
  {Reply(k, AbsentValue) : k \in FailureKinds \cup {"content_not_json", "content_not_object"}}
  \cup {Reply("content_object", v) : v \in {AbsentValue, NullValue, OtherValue}}
  \cup {Reply("content_object", ListValue(s)) :
          s \in SeqsUpTo(BackendFindings, MaxReplyFindings)}

\* The code and focus_areas arguments of a call.
CallInputs ==
  { [code |-> <<"function buy() {}">>, focus_areas |-> <<>>],
    [code |-> <<"x = 1">>, focus_areas |-> <<"security">>] }

\* ------------------------------------------------------------ the dispatcher
\* What analyze_code_snippet returns: the original returns a dict (shape
\* "analysis_result"), the enhanced returns a string (shape "document"),
\* either the reply's content or the text of _generate_error_response.
AnalysisResult(ts, findings) ==
  [shape |-> "analysis_result", status |-> "success", timestamp |-> ts,
   findings |-> findings, error |-> "", content |-> "none"]

ErrorDocument(ts, message) ==
  [shape |-> "document", status |-> "none", timestamp |-> ts,
   findings |-> AbsentValue, error |-> message, content |-> "none"]

ReplyDocument(reply) ==
  [shape |-> "document", status |-> "none", timestamp |-> 0,
   findings |-> reply.findings, error |-> "", content |-> reply.kind]

\* The findings the fallback selects by keyword.
SimulatedFindings(desc) ==
  (IF KeywordIn("reflection", desc) THEN ReflectionFindings ELSE <<>>)
  \o (IF KeywordIn("tax", desc) THEN TaxFindings ELSE <<>>)
  \o (IF KeywordIn("transfer", desc) \/ KeywordIn("_update", desc)
      THEN TransferFindings ELSE <<>>)

\* A fallback whose findings change from call to call (drawn by the clock).
SimulateByClock(desc, focus_areas, code, now) ==
  AnalysisResult(now,
    ListValue(IF now % 2 = 0 THEN SimulatedFindings(desc)
              ELSE TransferFindings \o SimulatedFindings(desc)))

\* A fallback that keeps, when focus areas are given, only the findings of
\* those categories.
SimulateByFocus(desc, focus_areas, code, now) ==
  AnalysisResult(now,
    ListValue(IF focus_areas = <<>> THEN SimulatedFindings(desc)
              ELSE SelectSeq(SimulatedFindings(desc),
                             LAMBDA f : \E k \in 1..Len(focus_areas) :
                                          focus_areas[k] = f.category)))

_simulate_analysis_response(desc, focus_areas, code, now) ==
  AnalysisResult(now, ListValue(SimulatedFindings(desc)))

\* The original dispatcher with its handlers returning an error value.
OriginalErrorOnFailure(code, desc, focus_areas, reply, now) ==
  IF reply.kind = "content_object"
  THEN AnalysisResult(now, IF reply.findings.tag = "absent" THEN ListValue(<<>>)
                           ELSE reply.findings)
  ELSE ErrorDocument(now, reply.kind)

\* o3_code_analyzer.py, analyze_code_snippet.  Every exception raised inside
\* the try (URLError, HTTPError, JSONDecodeError of the body, the TypeError
\* or AttributeError of a content that is no dict) reaches the handler of
\* line 138; a content that is not JSON reaches the one of line 131.
OriginalAnalyzeCodeSnippet(code, desc, focus_areas, reply, now) ==
  CASE reply.kind \in {"transport_error", "http_error", "invalid_json_body"} ->
         _simulate_analysis_response(desc, focus_areas, code, now)
    [] reply.kind = "no_choices" ->
         _simulate_analysis_response(desc, focus_areas, code, now)
    [] reply.kind = "content_not_json" ->
         _simulate_analysis_response(desc, focus_areas, code, now)
    [] reply.kind = "content_not_object" ->
         _simulate_analysis_response(desc, focus_areas, code, now)
    [] reply.kind = "content_object" ->
         AnalysisResult(now, IF reply.findings.tag = "absent" THEN ListValue(<<>>)
                             ELSE reply.findings)

_generate_error_response(error_message, now) == ErrorDocument(now, error_message)

\* o3_code_analyzer_enhanced.py, analyze_code_snippet.
EnhancedAnalyzeCodeSnippet(code, desc, focus_areas, reply, now) ==
  CASE reply.kind \in ContentKinds -> ReplyDocument(reply)
    [] reply.kind = "no_choices" -> _generate_error_response("API response error", now)
    [] reply.kind = "http_error" -> _generate_error_response("HTTP Error", now)
    [] reply.kind = "invalid_json_body" ->
         _generate_error_response("Invalid JSON response", now)
    [] reply.kind = "transport_error" -> _generate_error_response("URLError", now)

analyze_code_snippet(which, code, desc, focus_areas, reply, now) ==
  IF which = "original"
  THEN OriginalAnalyzeCodeSnippet(code, desc, focus_areas, reply, now)
  ELSE EnhancedAnalyzeCodeSnippet(code, desc, focus_areas, reply, now)

\* ---------------------------------------------------------- source texts
\* A source file is a sequence of lines and a line a sequence of tokens:
\*   "{" and "}"            the block delimiters
\*   "function N("          the declaration of the function named N
\*   "const N = () => "     the declaration of the arrow function named N
\*   anything else          text holding no delimiter and no declaration
NL == "\n"

\* The function names of the sources, each the sequence of its parts, so
\* that "buy" is a proper prefix of "buyTokens".
FunctionNames ==
  {<<"buy">>, <<"buy", "Tokens">>, <<"sell">>, <<"_update">>, <<"getEarlySellTaxFor">>}

FunctionToken(name) ==
  CASE name = <<"buy">> -> "function buy("
    [] name = <<"buy", "Tokens">> -> "function buyTokens("
    [] name = <<"sell">> -> "function sell("
    [] name = <<"_update">> -> "function _update("
    [] name = <<"getEarlySellTaxFor">> -> "function getEarlySellTaxFor("

ArrowToken(name) ==
  CASE name = <<"buy">> -> "const buy = () => "
    [] name = <<"buy", "Tokens">> -> "const buyTokens = () => "
    [] name = <<"sell">> -> "const sell = () => "
    [] name = <<"_update">> -> "const _update = () => "
    [] name = <<"getEarlySellTaxFor">> -> "const getEarlySellTaxFor = () => "

\* The text f"function {function_name}", what the enhanced analyzer puts in
\* front of a Solidity match.
FunctionPrefix(name) ==
  CASE name = <<"buy">> -> "function buy"
    [] name = <<"buy", "Tokens">> -> "function buyTokens"
    [] name = <<"sell">> -> "function sell"
    [] name = <<"_update">> -> "function _update"
    [] name = <<"getEarlySellTaxFor">> -> "function getEarlySellTaxFor"

IsPrefix(s, t) == Len(s) <= Len(t) /\ \A k \in 1..Len(s) : s[k] = t[k]

\* f"function {function_name}" in line: the line holds the declaration of a
\* function whose name begins with function_name.
DeclarationIn(name, line) ==
  \E k \in 1..Len(line) : \E n \in FunctionNames :
     line[k] = FunctionToken(n) /\ IsPrefix(name, n)

\* line.count(tok)
Count(line, tok) == Cardinality({k \in 1..Len(line) : line[k] = tok})

\* '\n'.join(lines)
RECURSIVE Join(_)
Join(lines) ==
  IF Len(lines) = 0 THEN <<>>
  ELSE IF Len(lines) = 1 THEN lines[1]
  ELSE lines[1] \o <<NL>> \o Join(Tail(lines))

\* The lines sources are made of.
SourceLines ==
  { <<"function buy(", ") ", "{", " if (x) ", "{", " y(); ", "}", " ", "}">>,
    <<"function buy(", ") ", "{">>,
    <<"function buyTokens(", ") ", "{">>,
    <<"function sell(", ") ", "{", " z(); ", "}">>,
    <<"const buy = () => ", "{">>,
    <<"  if (x) ", "{", " if (w) ", "{", " y(); ", "}", " ", "}">>,
    <<"  if (x) ", "{">>,
    <<"  y();">>,
    <<"}">> }

\* ------------------------------------------------------------- extraction
\* o3_code_analyzer.py, analyze_function, the loop of lines 229-239: the
\* lines collected from line i on, given the loop's variables.
RECURSIVE OriginalScan(_, _, _, _, _, _)
OriginalScan(lines, name, i, in_function, brace_count, function_lines) ==
  IF i > Len(lines) THEN function_lines
  ELSE IF DeclarationIn(name, lines[i])
  THEN OriginalScan(lines, name, i + 1, TRUE, Count(lines[i], "{"),
                    Append(function_lines, lines[i]))
  ELSE IF in_function
  THEN LET count == brace_count + Count(lines[i], "{") - Count(lines[i], "}")
       IN IF count <= 0 THEN Append(function_lines, lines[i])
          ELSE OriginalScan(lines, name, i + 1, TRUE, count,
                            Append(function_lines, lines[i]))
  ELSE OriginalScan(lines, name, i + 1, FALSE, brace_count, function_lines)

NotFound == <<"<not found>">>

\* An extraction that falls back to the whole file when nothing is found.
OriginalExtractOrWholeFile(lines, name) ==
  LET function_lines == OriginalScan(lines, name, 1, FALSE, 0, <<>>)
  IN IF Len(function_lines) = 0 THEN Join(lines) ELSE Join(function_lines)

\* The function_code of the original analyzer, or NotFound.
OriginalExtract(lines, name) ==
  LET function_lines == OriginalScan(lines, name, 1, FALSE, 0, <<>>)
  IN IF Len(function_lines) = 0 THEN NotFound ELSE Join(function_lines)

\* The regular expression's body ((?:[^{}]|{[^{}]*})*)\}: from position j of
\* the text, the position of the "}" that ends the match, or 0 when there is
\* none (a block nested two deep inside the body, or no closing delimiter).
RECURSIVE BodyEnd(_, _)
BodyEnd(text, j) ==
  IF j > Len(text) THEN 0
  ELSE IF text[j] = "}" THEN j
  ELSE IF text[j] = "{"
  THEN LET after == {k \in (j + 1)..Len(text) : text[k] \in {"{", "}"}}
       IN IF after = {} THEN 0
          ELSE LET k == CHOOSE m \in after : \A n \in after : m <= n
               IN IF text[k] = "}" THEN BodyEnd(text, k + 1) ELSE 0
  ELSE BodyEnd(text, j + 1)

\* function\s+NAME\s*\([^{]*\{ body \} matched at position p: the position
\* of its last token, or 0.
FunctionMatchEnd(text, name, p) ==
  IF text[p] # FunctionToken(name) THEN 0
  ELSE LET opens == {k \in (p + 1)..Len(text) : text[k] = "{"}
       IN IF opens = {} THEN 0
          ELSE BodyEnd(text, (CHOOSE m \in opens : \A n \in opens : m <= n) + 1)

\* const\s+NAME\s*=\s*(...)\s*=>\s*\{ body \} matched at position p.
ArrowMatchEnd(text, name, p) ==
  IF text[p] # ArrowToken(name) THEN 0
  ELSE IF p + 1 > Len(text) \/ text[p + 1] # "{" THEN 0
  ELSE BodyEnd(text, p + 2)

\* function_pattern.search(code): the leftmost match, as <<first, last>>, or
\* <<0, 0>>.  arrows: whether the pattern has the arrow alternative.
PatternSearch(text, name, arrows) ==
  LET MatchEnd(p) ==
        IF FunctionMatchEnd(text, name, p) > 0 THEN FunctionMatchEnd(text, name, p)
        ELSE IF arrows THEN ArrowMatchEnd(text, name, p) ELSE 0
      starts == {p \in 1..Len(text) : MatchEnd(p) > 0}
  IN IF starts = {} THEN <<0, 0>>
     ELSE LET p == CHOOSE m \in starts : \A n \in starts : m <= n
          IN <<p, MatchEnd(p)>>

BraceExtensions == {"sol", "js"}
Extensions == {"sol", "js", "txt"}

\* The extensions analyze_function has a pattern for.
PatternExtensions == BraceExtensions \cup {"py"}

\* A line of a Python source: indentation tokens, then the line's text; the
\* empty line is <<>>.  A source whose last line is empty is a text that
\* ends with a newline.
Indent == "    "

DefToken(name) ==
  CASE name = <<"buy">> -> "def buy("
    [] name = <<"sell">> -> "def sell("

PythonLines ==
  { <<"def buy(", "):">>,
    <<Indent, "def buy(", "self):">>,
    <<Indent, "def sell(", "self):">>,
    <<Indent, Indent, "return 1">>,
    <<Indent, "return 1">>,
    <<"x = 1">>,
    <<>> }

\* The first line holding the token and the token's place in it: where
\* re.search finds def\s+NAME\s*\(, or <<0, 0>>.
DefSearch(lines, name) ==
  LET hits == {k \in 1..Len(lines) : \E p \in 1..Len(lines[k]) : lines[k][p] = DefToken(name)}
  IN IF hits = {} THEN <<0, 0>>
     ELSE LET d == CHOOSE k \in hits : \A h \in hits : k <= h
          IN <<d, CHOOSE p \in 1..Len(lines[d]) : lines[d][p] = DefToken(name)>>

\* (?:[ \t]+[^\n]*\n+)* after the lines up to k have been matched with
\* their newlines: the last line matched.  \n+ takes the newline of every
\* empty line that follows; a line is taken when it begins with white
\* space and a newline follows it, whatever its indentation.
RECURSIVE PythonBodyEnd(_, _)
PythonBodyEnd(lines, k) ==
  IF k + 1 >= Len(lines) THEN k
  ELSE IF lines[k + 1] = <<>> \/ lines[k + 1][1] = Indent
  THEN PythonBodyEnd(lines, k + 1)
  ELSE k

\* The lines, each with the newline that follows it.
RECURSIVE WithNewlines(_)
WithNewlines(lines) ==
  IF Len(lines) = 0 THEN <<>> ELSE lines[1] \o <<NL>> \o WithNewlines(Tail(lines))

\* Lines 329-337: group(0) of the Python pattern, or NotFound.  The match
\* needs a newline after the declaration's line.
PythonExtract(lines, name) ==
  LET at == DefSearch(lines, name)
      d == at[1]
  IN IF d = 0 \/ d = Len(lines) THEN NotFound
     ELSE WithNewlines(<<SubSeq(lines[d], at[2], Len(lines[d]))>>
                       \o SubSeq(lines, d + 1, PythonBodyEnd(lines, d)))

\* The function_code of the enhanced analyzer for a file it has a pattern
\* for, or NotFound.
EnhancedExtract(lines, name, ext) ==
  LET text == Join(lines)
      m == PatternSearch(text, name, ext = "js")
  IN IF ext = "py" THEN PythonExtract(lines, name)
     ELSE IF m[1] = 0 THEN NotFound
     ELSE IF ext = "sol" THEN <<FunctionPrefix(name)>> \o SubSeq(text, m[1], m[2])
     ELSE SubSeq(text, m[1], m[2])

\* ------------------------------------------------------------ text helpers
\* str(n) for n >= 0, one token per digit.
Digit(d) ==
  CASE d = 0 -> "0" [] d = 1 -> "1" [] d = 2 -> "2" [] d = 3 -> "3" [] d = 4 -> "4"
    [] d = 5 -> "5" [] d = 6 -> "6" [] d = 7 -> "7" [] d = 8 -> "8" [] d = 9 -> "9"

RECURSIVE IntToText(_)
IntToText(n) == IF n < 10 THEN <<Digit(n)>> ELSE IntToText(n \div 10) \o <<Digit(n % 10)>>

\* text.split(sep)
RECURSIVE Split(_, _)
Split(text, sep) ==
  LET at == {k \in 1..Len(text) : text[k] = sep}
  IN IF at = {} THEN <<text>>
     ELSE LET k == CHOOSE m \in at : \A n \in at : m <= n
          IN <<SubSeq(text, 1, k - 1)>> \o Split(SubSeq(text, k + 1, Len(text)), sep)

\* text.replace(tok, '')
Remove(text, tok) == SelectSeq(text, LAMBDA t : t # tok)

WhiteSpace == {" ", "  "}

\* text.strip()
RECURSIVE Strip(_)
Strip(text) ==
  IF Len(text) = 0 THEN text
  ELSE IF text[1] \in WhiteSpace THEN Strip(Tail(text))
  ELSE IF text[Len(text)] \in WhiteSpace THEN Strip(SubSeq(text, 1, Len(text) - 1))
  ELSE text

\* ', '.join(map(str, line_numbers))
RECURSIVE JoinNumbers(_)
JoinNumbers(nums) ==
  IF Len(nums) = 0 THEN <<>>
  ELSE IF Len(nums) = 1 THEN IntToText(nums[1])
  ELSE IntToText(nums[1]) \o <<", ">> \o JoinNumbers(Tail(nums))

\* ------------------------------------------------------------- save_report
H3 == "### "
SEV == "**Severity:**"

\* A text field the finding does not carry.
Absent == <<"<absent>">>

\* finding.get(key, default)
SeverityOf(f) == IF f.severity = "absent" THEN "info" ELSE f.severity
TitleOf(f) == IF f.title = Absent THEN <<"Unnamed Issue">> ELSE f.title
DescriptionOf(f) == IF f.description = Absent THEN <<"No description provided">>
                    ELSE f.description
RecommendationOf(f) == IF f.recommendation = Absent THEN <<"No recommendation provided">>
                       ELSE f.recommendation

\* str.capitalize() of a severity.
Capitalize(sev) ==
  CASE sev = "high" -> "High" [] sev = "medium" -> "Medium"
    [] sev = "low" -> "Low" [] sev = "info" -> "Info"

\* category.capitalize().replace('_', ' ')
CategoryLabel(cat) ==
  CASE cat = "security" -> "Security"
    [] cat = "gas_optimization" -> "Gas optimization"
    [] cat = "logic_errors" -> "Logic errors"
    [] OTHER -> "Unknown"

SeverityOrder == <<"high", "medium", "low", "info">>

\* A count that leaves out the findings that carry no severity.
SeverityCountOfLabelled(items, sev) ==
  Cardinality({i \in 1..Len(items) : items[i].severity = sev})

\* severity_counts[sev] after the loop of lines 268-270.
SeverityCount(items, sev) ==
  Cardinality({i \in 1..Len(items) : SeverityOf(items[i]) = sev})

\* The loops over the findings raise: the findings value is no list
\* (TypeError, AttributeError) or a severity is no key of severity_counts
\* (KeyError).
SaveRaises(res) ==
  \/ res.findings.tag \in {"null", "string"}
  \/ /\ res.findings.tag = "list"
     /\ \E i \in 1..Len(res.findings.items) :
          SeverityOf(res.findings.items[i]) \notin Severities

ReportHeader(report_name, ts) ==
  <<"# O3 Analysis Report: ">> \o report_name \o <<NL, NL>>
  \o <<"*Generated on: ">> \o IntToText(ts) \o <<"*", NL, NL>>

RECURSIVE SummaryRows(_, _)
SummaryRows(items, k) ==
  IF k > Len(SeverityOrder) THEN <<>>
  ELSE <<"| ", Capitalize(SeverityOrder[k]), " | ">>
       \o IntToText(SeverityCount(items, SeverityOrder[k])) \o <<" |", NL>>
       \o SummaryRows(items, k + 1)

\* The section written for finding number i (lines 279-296).
FindingSection(f, i) ==
  <<H3>> \o IntToText(i) \o <<". ">> \o TitleOf(f) \o <<NL, NL>>
  \o <<SEV, " ", Capitalize(SeverityOf(f)), "  ", NL>>
  \o <<"**Category:** ", CategoryLabel(f.category), "  ", NL>>
  \o (IF Len(f.line_numbers) > 0
      THEN <<"**Line(s):** ">> \o JoinNumbers(f.line_numbers) \o <<"  ", NL>>
      ELSE <<>>)
  \o <<NL>> \o DescriptionOf(f) \o <<NL, NL>>
  \o <<"**Recommendation:**", "  ", NL>> \o RecommendationOf(f) \o <<NL, NL>>
  \o <<"---", NL, NL>>

\* Sections written from the last finding to the first.
RECURSIVE FindingSectionsReversed(_, _)
FindingSectionsReversed(items, i) ==
  IF i > Len(items) THEN <<>>
  ELSE FindingSection(items[Len(items) + 1 - i], i) \o FindingSectionsReversed(items, i + 1)

\* The loop of lines 279-296 over enumerate(findings, 1).
RECURSIVE FindingSections(_, _)
FindingSections(items, i) ==
  IF i > Len(items) THEN <<>>
  ELSE FindingSection(items[i], i) \o FindingSections(items, i + 1)

\* What save_report has written to the file when it returns, or when it
\* raises (the header and the summary heading are written by then).
ReportContent(res, report_name, ts) ==
  IF SaveRaises(res)
  THEN ReportHeader(report_name, ts) \o <<"## Summary", NL, NL>>
  ELSE LET items == IF res.findings.tag = "list" THEN res.findings.items ELSE <<>>
       IN ReportHeader(report_name, ts) \o <<"## Summary", NL, NL>>
          \o <<"| Severity | Count |", NL, "|----------|-------|", NL>>
          \o SummaryRows(items, 1)
          \o <<NL, "## Detailed Findings", NL, NL>>
          \o FindingSections(items, 1)

\* f"{self.output_dir}/{report_name}_{timestamp}.md", without the directory.
ReportFileName(report_name, ts) == report_name \o <<"_">> \o IntToText(ts) \o <<".md">>

\* ----------------------------------------------- _create_consolidated_report
\* The first line of a section that carries the severity marker, or <<>>.
MarkerLine(lines) ==
  LET at == {k \in 1..Len(lines) : \E j \in 1..Len(lines[k]) : lines[k][j] = SEV}
  IN IF at = {} THEN <<>> ELSE lines[CHOOSE m \in at : \A n \in at : m <= n]

HasMarker(lines) == \E k \in 1..Len(lines) : \E j \in 1..Len(lines[k]) : lines[k][j] = SEV

\* line.replace('**Severity:**', '').strip()
MarkedSeverity(line) == Strip(Remove(line, SEV))

\* severity.lower() in ['high', 'medium']
IsCritical(severity) ==
  Len(severity) = 1 /\ LowerWord(severity[1]) \in {"high", "medium"}

\* The findings one report contributes to critical_findings (lines 394-419).
RECURSIVE ScanSections(_, _, _)
ScanSections(sections, k, report_name) ==
  IF k > Len(sections) THEN <<>>
  ELSE LET lines == Split(sections[k], NL)
           severity == MarkedSeverity(MarkerLine(lines))
       IN (IF HasMarker(lines) /\ IsCritical(severity)
           THEN << [report |-> report_name, title |-> lines[1], severity |-> severity] >>
           ELSE <<>>)
          \o ScanSections(sections, k + 1, report_name)

ReportCriticalFindings(content) ==
  LET report_name == Remove(Split(content, NL)[1], "# O3 Analysis Report: ")
  IN ScanSections(Split(content, H3), 2, report_name)

\* critical_findings after the loop over report_files.
RECURSIVE CriticalFindings(_)
CriticalFindings(contents) ==
  IF Len(contents) = 0 THEN <<>>
  ELSE ReportCriticalFindings(contents[1]) \o CriticalFindings(Tail(contents))

\* ------------------------------------------------- values of idle variables
NoCall == [code |-> <<>>, focus_areas |-> <<>>, reply |-> Reply("none", AbsentValue)]
NoResult == [shape |-> "none", status |-> "none", timestamp |-> 0,
             findings |-> AbsentValue, error |-> "", content |-> "none"]
Unreadable == << <<"<unreadable>">> >>

\* The process after O3Analyzer has been constructed with a credential.
NotGiven == "<not given>"
Running == <<>>
Constructed ==
  /\ api_key = "sk-key" /\ env_key = NotGiven /\ exit_status = Running
  /\ output_dir_made = TRUE

IdleDispatch ==
  /\ description = <<>> /\ ncalls = 0 /\ call = NoCall /\ result = NoResult
  /\ fallbacks = {}
IdleWorkflow ==
  /\ clock = 0 /\ requests = <<>> /\ sent_at = <<>> /\ files = <<>> /\ log = <<>>
  /\ pc = "idle" /\ idx = 0
IdleFunction ==
  /\ source = <<>> /\ function_name = <<>> /\ extension = "" /\ returned = NoResult
IdleFull ==
  /\ reflection_lib = <<>> /\ dove_contract = <<>> /\ analyses = <<>>
  /\ reports = <<>> /\ critical = <<>>
IdleProject ==
  /\ disk = {} /\ ticks = {} /\ backend = {} /\ directory = <<>> /\ exclude_patterns = <<>>
  /\ file_list = <<>> /\ code_files = <<>> /\ visited = <<>> /\ observed = <<>>
  /\ results = <<>> /\ report_path = <<>>

\* --------------------------------------------------------- SpecDispatch
\* The backend attempt of the call failed or gave no parsable content.
ForcedFailure(c) == c.reply.kind \in FailureKinds \cup {"content_not_json"}

InitDispatch ==
  /\ Constructed
  /\ analyzer \in {"original", "enhanced"}
  /\ description \in Descriptions
  /\ ncalls = 0
  /\ call = NoCall
  /\ result = NoResult
  /\ fallbacks = {}
  /\ command = "none"
  /\ IdleWorkflow
  /\ IdleFunction
  /\ IdleFull
  /\ IdleProject

\* A request as the backend sees it.
Request(code, desc) == [code |-> code, description |-> desc]

\* A dispatcher that tries the backend a second time when the attempt fails.
RequestsWithRetry(code, desc, reply) ==
  IF reply.kind \in FailureKinds
  THEN <<Request(code, desc), Request(code, desc)>> ELSE <<Request(code, desc)>>

\* The requests one call of analyze_code_snippet sends: the one urlopen of
\* the try block, whatever comes of it.
RequestsSent(code, desc, reply) == <<Request(code, desc)>>

\* One call of analyze_code_snippet, the backend answering with any reply.
Dispatch ==
  /\ ncalls < MaxCalls
  /\ \E input \in CallInputs, reply \in Replies :
       /\ call' = [code |-> input.code, focus_areas |-> input.focus_areas, reply |-> reply]
       /\ result' = analyze_code_snippet(analyzer, input.code, description,
                                         input.focus_areas, reply, ncalls + 1)
       /\ requests' = requests \o RequestsSent(input.code, description, reply)
  /\ ncalls' = ncalls + 1
  /\ fallbacks' = IF ncalls > 0 /\ ForcedFailure(call)
                  THEN fallbacks \cup {result.findings} ELSE fallbacks
  /\ UNCHANGED <<analyzer, description, notDispatch>>

NextDispatch == Dispatch

SpecDispatch == InitDispatch /\ [][NextDispatch]_vars


\* ------------------------------------------------------ the units of a run
\* The replies the backend gives in the workflow specifications: a
\* transport failure, plain text, an object with a well-formed finding, an
\* object with a finding of an unexpected severity label, an object whose
\* findings is null.
RunReplies ==
  { Reply("transport_error", AbsentValue),
    Reply("content_not_json", AbsentValue),
    Reply("content_object", ListValue(<<
      Finding("high", "security", <<"Unchecked call">>, <<"The return value is ignored.">>,
              <<7>>, <<"Check the return value.">>) >>)),
    Reply("content_object", ListValue(<<
      Finding("critical", "security", <<"Unchecked call">>, <<"The return value is ignored.">>,
              <<7>>, <<"Check the return value.">>) >>)),
    Reply("content_object", NullValue) }

\* A write to the output directory: the file's name and what was written,
\* a text (the original's save_report) or the string the enhanced
\* dispatcher returned.
TextFile(name, text) == [name |-> name, text |-> text, doc |-> NoResult]
DocFile(name, doc) == [name |-> name, text |-> <<>>, doc |-> doc]

\* os.path.basename(filepath) of the one file of the function workflow.
FileBase(ext) == <<"Token", ".", ext>>
\* basename.replace('.', '_')
FileStem(ext) == <<"Token", "_", ext>>

NameWord(name) ==
  CASE name = <<"buy">> -> "buy"
    [] name = <<"buy", "Tokens">> -> "buyTokens"
    [] name = <<"sell">> -> "sell"
    [] name = <<"_update">> -> "_update"
    [] name = <<"getEarlySellTaxFor">> -> "getEarlySellTaxFor"

\* ------------------------------------------------------------ SpecFunction
MaxSourceLines == 3

Sources == SeqsUpTo(SourceLines, MaxSourceLines)
Targets == {<<"buy">>, <<"sell">>}

\* read_code_file: the text read, or None (here <<>>, which `not code`
\* treats as it treats the empty text).
ReadCodeFile(src) == IF src = Unreadable THEN <<>> ELSE Join(src)

InitFunction ==
  /\ Constructed
  /\ analyzer \in {"original", "enhanced"}
  /\ source \in Sources \cup {Unreadable}
  /\ function_name \in Targets
  /\ extension \in Extensions
  /\ returned = NoResult
  /\ command = "function"
  /\ clock = 1 /\ requests = <<>> /\ sent_at = <<>> /\ files = <<>> /\ log = <<>>
  /\ pc = "start" /\ idx = 0
  /\ IdleDispatch
  /\ IdleFull
  /\ IdleProject

\* The unit analyze_function extracts, or NotFound.
ExtractUnit(which, src, name, ext) ==
  IF which = "original" THEN OriginalExtract(src, name)
  ELSE IF ext \in PatternExtensions THEN EnhancedExtract(src, name, ext)
  ELSE Join(src)

\* o3_code_analyzer.py: main's "function" command, analyze_function and
\* save_report.
OriginalFunctionCommand ==
  /\ command = "function" /\ pc = "start" /\ analyzer = "original"
  /\ IF ReadCodeFile(source) = <<>>
     THEN /\ log' = IF source = Unreadable THEN Append(log, "read_error") ELSE log
          /\ pc' = "done"
          /\ UNCHANGED <<requests, sent_at, files, returned>>
     ELSE IF OriginalExtract(source, function_name) = NotFound
     THEN /\ log' = Append(log, "not_found")
          /\ pc' = "done"
          /\ UNCHANGED <<requests, sent_at, files, returned>>
     ELSE \E reply \in RunReplies :
            LET code == OriginalExtract(source, function_name)
                desc == <<"Function", NameWord(function_name), "from", "Token.sol">>
                res == analyze_code_snippet("original", code, desc, <<>>, reply, clock)
                report_name == <<"function_", NameWord(function_name)>>
            IN /\ requests' = Append(requests, Request(code, desc))
               /\ sent_at' = Append(sent_at, clock)
               /\ returned' = res
               /\ files' = Append(files, TextFile(ReportFileName(report_name, clock),
                                                  ReportContent(res, report_name, clock)))
               /\ pc' = IF SaveRaises(res) THEN "raised" ELSE "done"
               /\ log' = IF SaveRaises(res) THEN log ELSE Append(log, "report_saved")
  /\ UNCHANGED <<analyzer, clock, idx, source, function_name, extension, notFunction>>

\* o3_code_analyzer_enhanced.py: main's "function" command and
\* analyze_function; for an extension with no pattern, analyze_code_file.
EnhancedFunctionCommand ==
  /\ command = "function" /\ pc = "start" /\ analyzer = "enhanced"
  /\ IF ReadCodeFile(source) = <<>>
     THEN /\ log' = IF source = Unreadable THEN Append(log, "read_error") ELSE log
          /\ pc' = "done"
          /\ UNCHANGED <<requests, sent_at, files, returned>>
     ELSE IF extension \in PatternExtensions
             /\ EnhancedExtract(source, function_name, extension) = NotFound
     THEN /\ log' = Append(log, "not_found")
          /\ pc' = "done"
          /\ UNCHANGED <<requests, sent_at, files, returned>>
     ELSE \E reply \in RunReplies :
            LET supported == extension \in PatternExtensions
                code == ExtractUnit("enhanced", source, function_name, extension)
                desc == IF supported
                        THEN <<"Analysis of function", NameWord(function_name), "in",
                               "Token">>
                        ELSE <<"Analysis of file:", "Token">>
                res == analyze_code_snippet("enhanced", code, desc, <<>>, reply, clock)
                report_name == IF supported
                               THEN <<"function_", NameWord(function_name)>>
                               ELSE FileStem(extension)
            IN /\ requests' = Append(requests, Request(code, desc))
               /\ sent_at' = Append(sent_at, clock)
               /\ returned' = res
               /\ files' = Append(files, DocFile(ReportFileName(report_name, clock), res))
               /\ pc' = "done"
               /\ log' = Append(IF supported THEN log ELSE Append(log, "not_supported"),
                                "report_saved")
  /\ UNCHANGED <<analyzer, clock, idx, source, function_name, extension, notFunction>>

\* The "function" command on a Python file.
InitPython ==
  /\ Constructed
  /\ analyzer \in {"original", "enhanced"}
  /\ source \in SeqsUpTo(PythonLines, MaxSourceLines)
  /\ function_name \in Targets
  /\ extension = "py"
  /\ returned = NoResult
  /\ command = "function"
  /\ clock = 1 /\ requests = <<>> /\ sent_at = <<>> /\ files = <<>> /\ log = <<>>
  /\ pc = "start" /\ idx = 0
  /\ IdleDispatch
  /\ IdleFull
  /\ IdleProject

NextFunction == OriginalFunctionCommand \/ EnhancedFunctionCommand

SpecPython == InitPython /\ [][NextFunction]_vars

SpecFunction == InitFunction /\ [][NextFunction]_vars

\* ------------------------------------------------------------ SpecStartup
\* The values the --api-key option and the environment variable may have.
Credentials == {NotGiven, "", "sk-key"}

\* A credential value that is not falsy.
Truthy(value) == value # NotGiven /\ value # ""

\* A constructor that takes any value that was given for a credential.
CredentialGiven(arg, env) == arg # NotGiven \/ env # NotGiven

\* self.api_key = api_key or os.environ.get(API_KEY_ENV);  `not self.api_key`
\* is false when one of the two is a non-empty string.
HasCredential(arg, env) == Truthy(arg) \/ Truthy(env)

\* The process at the start of main, before O3Analyzer is constructed: a
\* "function" command on a file of at most one line.
InitStartup ==
  /\ analyzer \in {"original", "enhanced"}
  /\ api_key \in Credentials /\ env_key \in Credentials
  /\ exit_status = Running /\ output_dir_made = FALSE
  /\ source \in SeqsUpTo(SourceLines, 1) \cup {Unreadable}
  /\ function_name \in Targets
  /\ extension \in Extensions
  /\ returned = NoResult
  /\ command = "function"
  /\ clock = 1 /\ requests = <<>> /\ sent_at = <<>> /\ files = <<>> /\ log = <<>>
  /\ pc = "main" /\ idx = 0
  /\ IdleDispatch
  /\ IdleFull
  /\ IdleProject

\* O3Analyzer.__init__ as main calls it: without a credential the process
\* exits with status 1, before os.makedirs.
Construct ==
  /\ pc = "main"
  /\ IF HasCredential(api_key, env_key)
     THEN /\ output_dir_made' = TRUE
          /\ pc' = "start"
          /\ UNCHANGED <<exit_status, log>>
     ELSE /\ exit_status' = <<1>>
          /\ log' = Append(log, "no_api_key")
          /\ pc' = "exited"
          /\ UNCHANGED output_dir_made
  /\ UNCHANGED <<analyzer, command, api_key, env_key, clock, requests, sent_at, files, idx,
                 dvars, fvars, uvars, pvars>>

NextStartup == Construct \/ OriginalFunctionCommand \/ EnhancedFunctionCommand

SpecStartup == InitStartup /\ [][NextStartup]_vars

\* ----------------------------------------------- _create_consolidated_report
\* The content of the file last written under a name.
FileContent(name) ==
  LET at == {k \in 1..Len(files) : files[k].name = name}
  IN files[CHOOSE m \in at : \A n \in at : m >= n].text

\* os.path.basename(report_file).replace(".md", "")
ReportBaseName(name) == Remove(name, ".md")

\* report_name.lower().replace(' ', '-').replace('_', '-')
AnchorToken(t) ==
  CASE t = "_" -> "-"
    [] t = "reflection_library" -> "reflection-library"
    [] t = "dove_token" -> "dove-token"
    [] t = "transfer_function" -> "transfer-function"
    [] t = "early_sell_tax" -> "early-sell-tax"
    [] OTHER -> t
Anchor(name) == [k \in 1..Len(name) |-> AnchorToken(name[k])]

RECURSIVE TableOfContents(_)
TableOfContents(names) ==
  IF Len(names) = 0 THEN <<>>
  ELSE <<"- [">> \o ReportBaseName(names[1]) \o <<"](#">>
       \o Anchor(ReportBaseName(names[1])) \o <<")", NL>>
       \o TableOfContents(Tail(names))

RECURSIVE CriticalRows(_)
CriticalRows(rows) ==
  IF Len(rows) = 0 THEN <<>>
  ELSE <<"| ">> \o rows[1].severity \o <<" | ">> \o rows[1].report \o <<" | ">>
       \o rows[1].title \o <<" |", NL>> \o CriticalRows(Tail(rows))

\* A report taken over whole, its title with it.
KeepTitle(content) == content

\* '\n'.join(lines[2:])
DropTitle(content) ==
  LET lines == Split(content, NL)
  IN IF Len(lines) <= 2 THEN <<>> ELSE Join(SubSeq(lines, 3, Len(lines)))

RECURSIVE FullReports(_)
FullReports(names) ==
  IF Len(names) = 0 THEN <<>>
  ELSE <<NL, "## ">> \o ReportBaseName(names[1]) \o <<NL, NL>>
       \o DropTitle(FileContent(names[1])) \o <<NL, NL>>
       \o FullReports(Tail(names))

ReportContents(names) == [k \in 1..Len(names) |-> FileContent(names[k])]

ConsolidatedContent(names, ts) ==
  <<"# DOVE Token - Consolidated O3 Analysis Report", NL, NL>>
  \o <<"*Generated on: ">> \o IntToText(ts) \o <<"*", NL, NL>>
  \o <<"## Overview", NL, NL>>
  \o <<"This report combines multiple targeted analyses of the DOVE token implementation.",
       NL, NL>>
  \o <<"## Table of Contents", NL, NL>> \o TableOfContents(names)
  \o <<NL, "## Critical Findings Summary", NL, NL>>
  \o (IF Len(CriticalFindings(ReportContents(names))) > 0
      THEN <<"| Severity | Report | Finding |", NL, "|----------|--------|--------|", NL>>
           \o CriticalRows(CriticalFindings(ReportContents(names)))
      ELSE <<"No critical (high or medium severity) findings detected.", NL>>)
  \o FullReports(names)

ConsolidatedName(ts) == <<"consolidated_report", "_">> \o IntToText(ts) \o <<".md">>

\* ---------------------------------------------------------------- SpecFull
\* The four units of analyze_dove_implementation, in the order analysed.
UnitCount == 4

UnitReportName(k) ==
  CASE k = 1 -> <<"reflection_library">>
    [] k = 2 -> <<"dove_token">>
    [] k = 3 -> <<"transfer_function">>
    [] k = 4 -> <<"early_sell_tax">>

UnitDescription(k) ==
  CASE k = 1 -> <<"Reflection", "Library", "-", "Non-iterative", "token", "reflection",
                  "mechanism">>
    [] k = 2 -> <<"DOVE", "Token", "-", "Main", "contract", "with", "reflection", "and",
                  "tax", "mechanisms">>
    [] k = 3 -> <<"Function", "_update", "from", "DOVE.sol">>
    [] k = 4 -> <<"Function", "getEarlySellTaxFor", "from", "DOVE.sol">>

UnitFunction(k) == IF k = 3 THEN <<"_update">> ELSE <<"getEarlySellTaxFor">>

\* What the two files may hold.
ReflectionSources ==
  { Unreadable, <<>>, << <<"library Reflection ">>, <<"{">>, <<"}">> >> }

DoveSources ==
  { Unreadable,
    <<>>,
    << <<"contract DOVE ", "{">>, <<"}">> >>,
    << <<"function getEarlySellTaxFor(", ") ", "{">>, <<"  y();">>, <<"}">> >>,
    << <<"function _update(", ") ", "{">>, <<"}">>,
       <<"function getEarlySellTaxFor(", ") ", "{">>, <<"}">> >> }

\* None, and a result's truth value (`if reflection_analysis:`).
None == [shape |-> "None", status |-> "none", timestamp |-> 0,
         findings |-> AbsentValue, error |-> "", content |-> "none"]

InitFull ==
  /\ Constructed
  /\ analyzer = "original"
  /\ reflection_lib \in ReflectionSources
  /\ dove_contract \in DoveSources
  /\ analyses = <<>> /\ reports = <<>> /\ critical = <<>>
  /\ command = "full"
  /\ clock = 1 /\ requests = <<>> /\ sent_at = <<>> /\ files = <<>> /\ log = <<>>
  /\ pc = "analyze" /\ idx = 0
  /\ IdleDispatch
  /\ IdleFunction
  /\ IdleProject

\* The file unit k is read from.
UnitFile(k) == IF k = 1 THEN reflection_lib ELSE dove_contract

\* The code unit k sends, <<>> when the file gives no text and NotFound when
\* the function is not found.
UnitCode(k) ==
  IF k = 1 THEN ReadCodeFile(reflection_lib)
  ELSE IF k = 2 \/ ReadCodeFile(dove_contract) = <<>> THEN ReadCodeFile(dove_contract)
  ELSE OriginalExtract(dove_contract, UnitFunction(k))

\* analyze_contract_file (units 1, 2) or analyze_function (units 3, 4) of
\* the next unit.
FullAnalyzeUnit ==
  /\ pc = "analyze"
  /\ LET k == Len(analyses) + 1
         code == UnitCode(k)
     IN IF code = <<>>
        THEN /\ analyses' = Append(analyses, None)
             /\ log' = IF UnitFile(k) = Unreadable THEN Append(log, "read_error") ELSE log
             /\ UNCHANGED <<requests, sent_at>>
        ELSE IF code = NotFound
        THEN /\ analyses' = Append(analyses, None)
             /\ log' = Append(log, "not_found")
             /\ UNCHANGED <<requests, sent_at>>
        ELSE \E reply \in RunReplies :
               /\ analyses' = Append(analyses,
                    analyze_code_snippet("original", code, UnitDescription(k), <<>>,
                                         reply, clock))
               /\ requests' = Append(requests, Request(code, UnitDescription(k)))
               /\ sent_at' = Append(sent_at, clock)
               /\ UNCHANGED log
  /\ pc' = IF Len(analyses) + 1 = UnitCount THEN "save" ELSE "analyze"
  /\ UNCHANGED <<analyzer, clock, idx, files, reflection_lib, dove_contract, reports,
                 critical, notFull>>

\* The next `if x_analysis: reports.append(self.save_report(...))` of lines
\* 337-347, for unit idx + 1.  A save_report that raises ends the run.
FullSaveReport ==
  /\ pc = "save"
  /\ LET k == idx + 1
         res == analyses[k]
         name == ReportFileName(UnitReportName(k), clock)
     IN IF res = None
        THEN /\ pc' = IF k = Len(analyses) THEN "consolidate" ELSE "save"
             /\ UNCHANGED <<files, reports, log>>
        ELSE /\ files' = Append(files, TextFile(name,
                                   ReportContent(res, UnitReportName(k), clock)))
             /\ IF SaveRaises(res)
                THEN /\ pc' = "raised"
                     /\ UNCHANGED <<reports, log>>
                ELSE /\ pc' = IF k = Len(analyses) THEN "consolidate" ELSE "save"
                     /\ reports' = Append(reports, name)
                     /\ log' = Append(log, "report_saved")
  /\ idx' = idx + 1
  /\ UNCHANGED <<analyzer, clock, requests, sent_at, reflection_lib, dove_contract, analyses,
                 critical, notFull>>

\* self._create_consolidated_report(reports)
FullConsolidate ==
  /\ pc = "consolidate"
  /\ critical' = CriticalFindings(ReportContents(reports))
  /\ files' = Append(files, TextFile(ConsolidatedName(clock),
                                     ConsolidatedContent(reports, clock)))
  /\ log' = Append(log, "consolidated_saved")
  /\ pc' = "done"
  /\ UNCHANGED <<analyzer, clock, idx, requests, sent_at, reflection_lib, dove_contract, analyses,
                 reports, notFull>>

NextFull == FullAnalyzeUnit \/ FullSaveReport \/ FullConsolidate

SpecFull == InitFull /\ [][NextFull]_vars

\* -------------------------------------------------------------- SpecReport
\* The report writer on analyses of any content: the analyses are drawn
\* from findings whose texts may hold the markers the consolidated report
\* scans for.
MaxReports == 2
MaxFindings == 2

ReportTitles == { <<"Overflow">>, <<SEV, " ", "note">> }
ReportTexts == { <<"Plain text.">>,
                 <<"See", NL, H3, "Appendix", NL, SEV, " ", "High">> }

ReportFindings ==
  { Finding(sev, "security", title, text, <<>>, <<"Fix.">>) :
      sev \in Severities, title \in ReportTitles, text \in ReportTexts }

RECURSIVE FindingCount(_)
FindingCount(made) ==
  IF Len(made) = 0 THEN 0
  ELSE Len(made[1].findings.items) + FindingCount(Tail(made))

InitReport ==
  /\ Constructed
  /\ analyzer = "original"
  /\ reflection_lib = <<>> /\ dove_contract = <<>>
  /\ analyses = <<>> /\ reports = <<>> /\ critical = <<>>
  /\ command = "full"
  /\ clock = 1 /\ requests = <<>> /\ sent_at = <<>> /\ files = <<>> /\ log = <<>>
  /\ pc = "analyze" /\ idx = 0
  /\ IdleDispatch
  /\ IdleFunction
  /\ IdleProject

\* The analysis of the next unit, given: any findings within the bounds.
ReportInput ==
  /\ pc = "analyze"
  /\ Len(analyses) < MaxReports
  /\ \E items \in SeqsUpTo(ReportFindings, MaxFindings - FindingCount(analyses)) :
       analyses' = Append(analyses, AnalysisResult(clock, ListValue(items)))
  /\ \E last \in BOOLEAN :
       pc' = IF last \/ Len(analyses) + 1 = MaxReports THEN "save" ELSE "analyze"
  /\ UNCHANGED <<analyzer, clock, idx, requests, sent_at, files, log, reflection_lib, dove_contract,
                 reports, critical, notFull>>

NextReport == ReportInput \/ FullSaveReport \/ FullConsolidate

SpecReport == InitReport /\ [][NextReport]_vars

\* ------------------------------------------------- discovery of the files
\* Names and paths are sequences of characters.
\* Directories deeper than the root's own listed in one directory.
MaxDirs == 2
\* Files of the flat project and of the batch list.
MaxFiles == 6

SrcName == <<"s", "r", "c">>
DistName == <<"d", "i", "s", "t">>
DistroName == <<"d", "i", "s", "t", "r", "o">>
XgitName == <<"x", "g", "i", "t">>
AppName == <<"a", "p", "p">>
JsFile == <<"a", ".", "j", "s">>
DistJsFile == <<"d", "i", "s", "t", ".", "j", "s">>
ReadmeFile == <<"r", ".", "m", "d">>

\* The patterns of line 177.
DefaultExcludes ==
  << <<"n", "o", "d", "e", "_", "m", "o", "d", "u", "l", "e", "s">>,
     DistName,
     <<".", "g", "i", "t">>,
     <<"_", "_", "p", "y", "c", "a", "c", "h", "e", "_", "_">> >>

\* `exclude_patterns or [...]`
EffectiveExcludes(arg) == IF arg = <<>> THEN DefaultExcludes ELSE arg

\* The extensions of line 192.
AllowedExtensions ==
  { <<".", "j", "s">>, <<".", "j", "s", "x">>, <<".", "t", "s">>, <<".", "t", "s", "x">>,
    <<".", "p", "y">>, <<".", "s", "o", "l">>, <<".", "h", "t", "m", "l">>,
    <<".", "c", "s", "s">>, <<".", "s", "c", "s", "s">> }

\* str.endswith
EndsWith(s, suffix) ==
  Len(suffix) <= Len(s) /\ SubSeq(s, Len(s) - Len(suffix) + 1, Len(s)) = suffix

\* A pattern of literal characters and "." matches s from position i on.
ReMatchAt(pattern, s, i) ==
  /\ i + Len(pattern) - 1 <= Len(s)
  /\ \A k \in 1..Len(pattern) : pattern[k] = "." \/ pattern[k] = s[i + k - 1]

\* re.match: at the start of s.
ReMatch(pattern, s) == ReMatchAt(pattern, s, 1)

\* re.search: anywhere in s.
ReSearch(pattern, s) == \E i \in 1..(Len(s) + 1) : ReMatchAt(pattern, s, i)

\* os.path.join
JoinPath(root, name) == root \o <<"/">> \o name

\* A walk that keeps every directory of a listing.
KeepEveryDir(dirs, patterns) == dirs

\* Line 183: the listing's directories os.walk goes on with.
PruneDirs(dirs, patterns) ==
  SelectSeq(dirs, LAMBDA d : ~\E k \in 1..Len(patterns) : ReMatch(patterns[k], d.name))

\* A file filter that looks at the file's name only.
FileNameExcluded(root, file, patterns) ==
  \E k \in 1..Len(patterns) : ReSearch(patterns[k], file)

\* Line 188: the file is skipped.
FileExcluded(root, file, patterns) ==
  \E k \in 1..Len(patterns) : ReSearch(patterns[k], JoinPath(root, file))

\* A listing filtered by the exclusion patterns alone.
ListedFilesOfAnyKind(root, listed, patterns) ==
  LET keep(file) == ~FileExcluded(root, file, patterns)
      kept == SelectSeq(listed, keep)
  IN [k \in 1..Len(kept) |-> JoinPath(root, kept[k])]

\* Lines 185-193: the files of one listing that are appended to code_files.
ListedCodeFiles(root, listed, patterns) ==
  LET keep(file) == /\ ~FileExcluded(root, file, patterns)
                    /\ \E ext \in AllowedExtensions : EndsWith(file, ext)
      kept == SelectSeq(listed, keep)
  IN [k \in 1..Len(kept) |-> JoinPath(root, kept[k])]

\* Lines 181-193: os.walk(directory_path), top-down.  The directory at root
\* is listed, its directories are pruned in place, its files are filtered,
\* and the walk goes on with the directories that are left, in order.
RECURSIVE Walk(_, _, _)
RECURSIVE WalkDirs(_, _, _)
Walk(node, root, patterns) ==
  LET below == WalkDirs(PruneDirs(node.dirs, patterns), root, patterns)
  IN [visited |-> <<root>> \o below.visited,
      code_files |-> ListedCodeFiles(root, node.files, patterns) \o below.code_files]

WalkDirs(dirs, root, patterns) ==
  IF Len(dirs) = 0 THEN [visited |-> <<>>, code_files |-> <<>>]
  ELSE LET first == Walk(dirs[1], JoinPath(root, dirs[1].name), patterns)
           rest == WalkDirs(Tail(dirs), root, patterns)
       IN [visited |-> first.visited \o rest.visited,
           code_files |-> first.code_files \o rest.code_files]

\* ------------------------------------------------------------- the trees
Dir(name, dirs, listed) == [name |-> name, dirs |-> dirs, files |-> listed]

NotADirectory == Dir(<<>>, <<>>, <<>>)

\* Directories two levels below the root.
LeafDirs == {Dir(n, <<>>, <<JsFile>>) : n \in {SrcName, DistName}}

\* Directories one level below the root.
InnerDirs ==
  {Dir(n, ds, fs) : n \in {SrcName, DistName}, ds \in SeqsUpTo(LeafDirs, 1),
                    fs \in {<<>>, <<JsFile>>}}
  \cup {Dir(n, <<>>, <<JsFile>>) : n \in {DistroName, XgitName}}

Trees ==
  {Dir(n, ds, fs) : n \in {AppName, DistName}, ds \in SeqsUpTo(InnerDirs, MaxDirs),
                    fs \in {<<>>, <<JsFile, DistJsFile, ReadmeFile>>}}

\* The flat project: n files in the root directory; the batch list: n paths.
FlatFile(i) == <<"f">> \o IntToText(i) \o <<".", "p", "y">>
FlatTree(n) == Dir(AppName, <<>>, [i \in 1..n |-> FlatFile(i)])
FlatTrees == {FlatTree(n) : n \in 0..MaxFiles}
FileLists == {[i \in 1..n |-> FlatFile(i)] : n \in 0..MaxFiles}

\* ------------------------------------------------ project and batch runs
\* The cap of lines 211-214.
FileCap == 5
\* The seconds of time.sleep.
SleepSeconds == 2

\* A run that analyses every file found.
CapNothing(found) == found

\* Lines 211-214: the files the project run goes on with.
CapFiles(found) == IF Len(found) > FileCap THEN SubSeq(found, 1, FileCap) ELSE found

\* What a file is found to be when it is read.
FileStates == {"text", "empty", "unreadable", "missing"}

\* The replies of a benign backend: a markdown report with its Summary
\* section; and those of any backend in these runs: that, or no reply.
MarkdownReply == Reply("content_not_json", AbsentValue)
FileReplies == {MarkdownReply, Reply("transport_error", AbsentValue)}

\* The text of a file that has text.
CodeOf(filepath) == <<"code of ">> \o filepath

\* os.path.basename
RECURSIVE BaseName(_)
BaseName(path) ==
  IF \E k \in 1..Len(path) : path[k] = "/"
  THEN BaseName(Tail(path)) ELSE path

\* str.replace(".", "_")
Underscored(name) == [k \in 1..Len(name) |-> IF name[k] = "." THEN "_" ELSE name[k]]

\* os.path.relpath(filepath, directory_path)
RelPath(filepath, directory_path) ==
  SubSeq(filepath, Len(directory_path) + 2, Len(filepath))

\* ', '.join(focus_areas)
RECURSIVE CommaJoin(_)
CommaJoin(words) ==
  IF Len(words) = 0 THEN <<>>
  ELSE IF Len(words) = 1 THEN <<words[1]>>
  ELSE <<words[1], ", ">> \o CommaJoin(Tail(words))

\* An analyze_code_file that writes no report.
AnalyzeCodeFileUnsaved(filepath, focus_areas, found, reply, now) ==
  IF found # "text"
  THEN [result |-> None, sent |-> <<>>, written |-> <<>>]
  ELSE LET desc == <<"Analysis of file: ">> \o filepath
           res == EnhancedAnalyzeCodeSnippet(CodeOf(filepath), desc, focus_areas, reply, now)
       IN [result |-> res, sent |-> <<Request(CodeOf(filepath), desc)>>, written |-> <<>>]

\* An analyze_code_file that goes on with whatever the read gave.
AnalyzeWhateverIsRead(filepath, focus_areas, found, reply, now) ==
  LET desc == <<"Analysis of file: ">> \o filepath
      res == EnhancedAnalyzeCodeSnippet(CodeOf(filepath), desc, focus_areas, reply, now)
      name == ReportFileName(Underscored(BaseName(filepath)), now)
  IN [result |-> res, sent |-> <<Request(CodeOf(filepath), desc)>>,
      written |-> <<DocFile(name, res)>>]

\* analyze_code_file (lines 260-283) of a file found in state found, the
\* backend answering reply: what it returns, sends and writes.
AnalyzeCodeFile(filepath, focus_areas, found, reply, now) ==
  IF found # "text"
  THEN [result |-> None, sent |-> <<>>, written |-> <<>>]
  ELSE LET desc == <<"Analysis of file: ">> \o filepath
                     \o (IF focus_areas # <<>>
                         THEN <<" with focus on: ">> \o CommaJoin(focus_areas) ELSE <<>>)
           res == EnhancedAnalyzeCodeSnippet(CodeOf(filepath), desc, focus_areas, reply, now)
           name == ReportFileName(Underscored(BaseName(filepath)), now)
       IN [result |-> res,
           sent |-> <<Request(CodeOf(filepath), desc)>>,
           written |-> <<DocFile(name, res)>>]

\* Lines 242-246, 385-389: the Summary section of a report, if it has one.
HasSummary(report) == report.shape = "document" /\ report.content = "content_not_json"

RECURSIVE Listing(_)
Listing(paths) ==
  IF Len(paths) = 0 THEN <<>>
  ELSE <<"- ">> \o paths[1] \o <<NL>> \o Listing(Tail(paths))

RECURSIVE Summaries(_)
Summaries(pairs) ==
  IF Len(pairs) = 0 THEN <<>>
  ELSE (IF HasSummary(pairs[1][2])
        THEN <<H3>> \o pairs[1][1] \o <<NL, NL, "summary", NL, NL>> ELSE <<>>)
       \o Summaries(Tail(pairs))

InitProjectRun ==
  /\ Constructed
  /\ analyzer = "enhanced" /\ command = "project"
  /\ file_list = <<>> /\ code_files = <<>> /\ visited = <<>> /\ observed = <<>>
  /\ results = <<>> /\ report_path = <<>>
  /\ clock = 1 /\ requests = <<>> /\ sent_at = <<>> /\ files = <<>> /\ log = <<>>
  /\ pc = "start" /\ idx = 0
  /\ IdleDispatch
  /\ IdleFunction
  /\ IdleFull

\* A project of any tree, every file of it readable, the backend benign.
InitProject ==
  /\ InitProjectRun
  /\ directory \in Trees \cup {NotADirectory}
  /\ exclude_patterns \in {<<>>, <<SrcName>>}
  /\ disk = {"text"}
  /\ ticks = {0}
  /\ backend = {MarkdownReply}

\* A flat project, its files in any state, the backend giving any reply.
InitFlatProject ==
  /\ InitProjectRun
  /\ directory \in FlatTrees
  /\ exclude_patterns = <<>>
  /\ disk = FileStates \ {"missing"}
  /\ ticks = {0, 1}
  /\ backend = FileReplies

InitBatch ==
  /\ Constructed
  /\ analyzer = "enhanced" /\ command = "batch"
  /\ file_list \in FileLists
  /\ disk = FileStates
  /\ ticks = {0}
  /\ backend = FileReplies
  /\ directory = <<>> /\ exclude_patterns = <<>>
  /\ code_files = <<>> /\ visited = <<>> /\ observed = <<>>
  /\ results = <<>> /\ report_path = <<>>
  /\ clock = 1 /\ requests = <<>> /\ sent_at = <<>> /\ files = <<>> /\ log = <<>>
  /\ pc = "unit" /\ idx = 0
  /\ IdleDispatch
  /\ IdleFunction
  /\ IdleFull

\* analyze_project, lines 166-214: the directory check, the walk, the
\* report's name and the cap.
ProjectDiscover ==
  /\ command = "project" /\ pc = "start"
  /\ IF directory = NotADirectory
     THEN /\ log' = Append(log, "not_a_directory")
          /\ pc' = "done"
          /\ UNCHANGED <<visited, code_files, report_path>>
     ELSE LET walk == Walk(directory, directory.name, EffectiveExcludes(exclude_patterns))
              found == walk.code_files
          IN /\ visited' = walk.visited
             /\ report_path' = <<"project_">> \o directory.name
                                 \o <<"_">> \o IntToText(clock) \o <<".md">>
             /\ code_files' = CapFiles(found)
             /\ log' = IF Len(found) > FileCap THEN Append(log, "limit_warning") ELSE log
             /\ pc' = "unit"
  /\ UNCHANGED <<clock, requests, sent_at, files, idx, disk, ticks, backend, directory, exclude_patterns,
                 file_list, observed, results, notProject>>

\* analyze_project, lines 216-237: one turn of the loop.  The report
\* analyze_code_file has written is written again (lines 228-234) under a
\* name made from a second reading of the clock, tick seconds later.
ProjectAnalyzeUnit ==
  /\ command = "project" /\ pc = "unit" /\ idx < Len(code_files)
  /\ \E found \in disk, reply \in backend, tick \in ticks :
       LET filepath == code_files[idx + 1]
           rel_path == RelPath(filepath, directory.name)
           done == AnalyzeCodeFile(filepath, <<>>, found, reply, clock)
           name == ReportFileName(Underscored(BaseName(filepath)), clock + tick)
       IN /\ observed' = Append(observed, found)
          /\ requests' = requests \o done.sent
          /\ sent_at' = sent_at \o [i \in 1..Len(done.sent) |-> clock]
          /\ IF found = "text"
             THEN /\ results' = Append(results, <<rel_path, done.result>>)
                  /\ files' = files \o done.written \o <<DocFile(name, done.result)>>
                  /\ clock' = clock + tick + SleepSeconds
             ELSE UNCHANGED <<results, files, clock>>
          /\ log' = IF found = "unreadable" THEN Append(log, "read_error") ELSE log
  /\ idx' = idx + 1
  /\ UNCHANGED <<pc, disk, ticks, backend, directory, exclude_patterns, file_list, code_files,
                 visited, report_path, notProject>>

\* analyze_project, lines 239-258: the project's report.
ProjectSummary ==
  /\ command = "project" /\ pc = "unit" /\ idx = Len(code_files)
  /\ LET listed == [k \in 1..Len(code_files) |-> RelPath(code_files[k], directory.name)]
         text == <<"# Project Analysis: ">> \o directory.name \o <<NL, NL>>
                   \o <<"## Files Analyzed", NL, NL>> \o Listing(listed)
                   \o <<NL, "## Summary of Findings", NL, NL>> \o Summaries(results)
                   \o <<NL, "## Detailed Reports", NL, NL>>
     IN files' = Append(files, TextFile(report_path, text))
  /\ log' = Append(log, "project_complete")
  /\ pc' = "done"
  /\ UNCHANGED <<clock, requests, sent_at, idx, pvars, notProject>>

\* run_batch_analysis, lines 361-370: one turn of the loop.
BatchAnalyzeUnit ==
  /\ command = "batch" /\ pc = "unit" /\ idx < Len(file_list)
  /\ \E found \in disk, reply \in backend :
       LET filepath == file_list[idx + 1]
           done == AnalyzeCodeFile(filepath, <<>>, found, reply, clock)
       IN /\ observed' = Append(observed, found)
          /\ requests' = requests \o done.sent
          /\ sent_at' = sent_at \o [i \in 1..Len(done.sent) |-> clock]
          /\ files' = files \o done.written
          /\ IF found = "missing"
             THEN /\ log' = Append(log, "file_not_found")
                  /\ UNCHANGED <<results, clock>>
             ELSE /\ results' = Append(results, <<filepath, done.result>>)
                  /\ clock' = clock + SleepSeconds
                  /\ log' = IF found = "unreadable" THEN Append(log, "read_error") ELSE log
  /\ idx' = idx + 1
  /\ UNCHANGED <<pc, disk, ticks, backend, directory, exclude_patterns, file_list, code_files,
                 visited, report_path, notProject>>

\* run_batch_analysis, lines 372-395: the batch report.  re.search raises
\* TypeError on a result that is None; main (lines 488-497) prints the error.
BatchSummary ==
  /\ command = "batch" /\ pc = "unit" /\ idx = Len(file_list)
  /\ LET name == <<"batch_analysis_">> \o IntToText(clock) \o <<".md">>
         listed == [k \in 1..Len(results) |-> results[k][1]]
         named == [k \in 1..Len(results) |-> <<BaseName(results[k][1]), results[k][2]>>]
         text == <<"# Batch Analysis Report", NL, NL>>
                   \o <<"## Files Analyzed", NL, NL>> \o Listing(listed)
                   \o <<NL, "## Summary of Findings", NL, NL>> \o Summaries(named)
     IN IF \E k \in 1..Len(results) : results[k][2] = None
        THEN /\ pc' = "raised"
             /\ log' = Append(log, "error_processing_batch_file")
             /\ UNCHANGED <<files, report_path>>
        ELSE /\ pc' = "done"
             /\ report_path' = name
             /\ files' = Append(files, TextFile(name, text))
             /\ log' = Append(log, "batch_complete")
  /\ UNCHANGED <<clock, requests, sent_at, idx, disk, ticks, backend, directory, exclude_patterns,
                 file_list, code_files, visited, observed, results, notProject>>

\* ------------------------------------------------ file and ui commands
\* default_ui_focus of analyze_ui_component.
DefaultUiFocus == {"accessibility", "user experience", "performance", "best practices"}

\* list(set(...)): the elements of a set in any order.
Orderings(S) ==
  {f \in [1..Cardinality(S) -> S] : \A i, j \in 1..Cardinality(S) : f[i] = f[j] => i = j}

\* The "file" or "ui" command on one file, in any state, any reply coming.
InitFileCommand ==
  /\ Constructed
  /\ analyzer = "enhanced" /\ command \in {"file", "ui"}
  /\ file_list = <<FlatFile(1)>>
  /\ disk = FileStates
  /\ ticks = {0}
  /\ backend = FileReplies
  /\ directory = <<>> /\ exclude_patterns = <<>>
  /\ code_files = <<>> /\ visited = <<>> /\ observed = <<>>
  /\ results = <<>> /\ report_path = <<>>
  /\ clock = 1 /\ requests = <<>> /\ sent_at = <<>> /\ files = <<>> /\ log = <<>>
  /\ pc = "start" /\ idx = 0
  /\ IdleDispatch
  /\ IdleFunction
  /\ IdleFull

\* main's call of analyze_code_file or analyze_ui_component on args.filepath
\* with the focus areas given.
RunCodeFile(focus_areas) ==
  /\ pc = "start"
  /\ \E found \in disk, reply \in backend :
       LET done == AnalyzeCodeFile(file_list[1], focus_areas, found, reply, clock)
       IN /\ observed' = Append(observed, found)
          /\ requests' = requests \o done.sent
          /\ sent_at' = sent_at \o [i \in 1..Len(done.sent) |-> clock]
          /\ files' = files \o done.written
          /\ returned' = done.result
          /\ log' = IF found \in {"unreadable", "missing"} THEN Append(log, "read_error")
                    ELSE IF found = "text" THEN Append(log, "report_saved") ELSE log
  /\ pc' = "done"
  /\ UNCHANGED <<analyzer, command, clock, idx, dvars, source, function_name, extension,
                 uvars, disk, ticks, backend, directory, exclude_patterns, file_list,
                 code_files, visited, results, report_path, svars>>

\* analyze_code_file, no --focus given.
FileCommand == command = "file" /\ RunCodeFile(<<>>)

\* analyze_ui_component: the default focus areas, in the order of a set.
UiCommand == command = "ui" /\ \E combined_focus \in Orderings(DefaultUiFocus) :
                                 RunCodeFile(combined_focus)

NextProject == ProjectDiscover \/ ProjectAnalyzeUnit \/ ProjectSummary

NextBatch == BatchAnalyzeUnit \/ BatchSummary

SpecProject == InitProject /\ [][NextProject]_vars

\* The runs over several files: the flat project and the batch.
InitMultiFile == InitFlatProject \/ InitBatch

NextMultiFile == NextProject \/ NextBatch

SpecMultiFile == InitMultiFile /\ [][NextMultiFile]_vars

\* The same runs over files that are readable or not, the clock not ticking
\* between two writes, the backend answering or failing.
InitTermination ==
  \/ /\ InitProjectRun
     /\ directory \in FlatTrees
     /\ exclude_patterns = <<>>
     /\ disk = {"text", "unreadable"}
     /\ ticks = {0}
     /\ backend = FileReplies
  \/ /\ Constructed
     /\ analyzer = "enhanced" /\ command = "batch"
     /\ file_list \in FileLists
     /\ disk = {"text", "unreadable"}
     /\ ticks = {0}
     /\ backend = FileReplies
     /\ directory = <<>> /\ exclude_patterns = <<>>
     /\ code_files = <<>> /\ visited = <<>> /\ observed = <<>>
     /\ results = <<>> /\ report_path = <<>>
     /\ clock = 1 /\ requests = <<>> /\ sent_at = <<>> /\ files = <<>> /\ log = <<>>
     /\ pc = "unit" /\ idx = 0
     /\ IdleDispatch
     /\ IdleFunction
     /\ IdleFull

\* Every step of a run is taken in the end: a request to the backend
\* returns or fails, and the loop's next turn follows.
SpecTermination == InitTermination /\ [][NextMultiFile]_vars /\ WF_vars(NextMultiFile)

\* The five commands of the enhanced analyzer (and the original's
\* "function" command).
InitCommands == InitFileCommand \/ InitFunction \/ InitFlatProject \/ InitBatch

NextCommands == FileCommand \/ UiCommand \/ NextFunction \/ NextProject \/ NextBatch

SpecCommands == InitCommands /\ [][NextCommands]_vars

\* ------------------------------------------------------------- SpecRender
\* The original's "file" command: one file analysed, its result rendered by
\* save_report.  The findings of a reply: any severity of the histogram or
\* none, a title or none; one finding of a severity outside it, and one
\* whose description holds the marks of a section.
RenderFindings ==
  { Finding(sev, "security", title, <<"Plain text.">>, <<>>, <<"Fix.">>) :
      sev \in Severities \cup {"absent"}, title \in {<<"Overflow">>, Absent} }
  \cup { Finding("critical", "security", <<"Overflow">>, <<"Plain text.">>, <<>>,
                 <<"Fix.">>),
         Finding("high", "security", <<"Overflow">>,
                 <<"See", NL, NL, "---", NL, NL, H3, "1", ". ", "Overflow", NL, NL>>,
                 <<7>>, <<"Fix.">>) }

RenderReplies ==
  { Reply("content_object", ListValue(items)) : items \in SeqsUpTo(RenderFindings, MaxFindings) }
  \cup { Reply("transport_error", AbsentValue) }

InitRender ==
  /\ Constructed
  /\ analyzer = "original" /\ command = "file"
  /\ file_list = <<FlatFile(1)>>
  /\ disk = {"text", "unreadable"}
  /\ ticks = {0}
  /\ backend = RenderReplies
  /\ directory = <<>> /\ exclude_patterns = <<>>
  /\ code_files = <<>> /\ visited = <<>> /\ observed = <<>>
  /\ results = <<>> /\ report_path = <<>>
  /\ clock = 1 /\ requests = <<>> /\ sent_at = <<>> /\ files = <<>> /\ log = <<>>
  /\ pc = "start" /\ idx = 0
  /\ IdleDispatch
  /\ IdleFunction
  /\ IdleFull

\* o3_code_analyzer.py, main's "file" command (lines 474-477):
\* analyze_contract_file with the default description, then save_report.
OriginalFileCommand ==
  /\ command = "file" /\ analyzer = "original" /\ pc = "start"
  /\ \E found \in disk, reply \in backend :
       LET filepath == file_list[1]
           desc == <<"Code", "file">>
           res == analyze_code_snippet("original", CodeOf(filepath), desc, <<>>, reply, clock)
           report_name == Underscored(BaseName(filepath))
       IN /\ observed' = Append(observed, found)
          /\ IF found # "text"
             THEN /\ log' = IF found = "unreadable" THEN Append(log, "read_error") ELSE log
                  /\ returned' = None
                  /\ pc' = "done"
                  /\ UNCHANGED <<requests, sent_at, files>>
             ELSE /\ requests' = Append(requests, Request(CodeOf(filepath), desc))
                  /\ sent_at' = Append(sent_at, clock)
                  /\ returned' = res
                  /\ files' = Append(files, TextFile(ReportFileName(report_name, clock),
                                                     ReportContent(res, report_name, clock)))
                  /\ pc' = IF SaveRaises(res) THEN "raised" ELSE "done"
                  /\ log' = IF SaveRaises(res) THEN log ELSE Append(log, "report_saved")
  /\ UNCHANGED <<analyzer, command, clock, idx, dvars, source, function_name, extension,
                 uvars, disk, ticks, backend, directory, exclude_patterns, file_list,
                 code_files, visited, results, report_path, svars>>

NextRender == OriginalFileCommand

SpecRender == InitRender /\ [][NextRender]_vars

\* The runs over several units: those, and the original's full run.
InitMultiUnit == InitFlatProject \/ InitBatch \/ InitFull

NextMultiUnit == NextProject \/ NextBatch \/ NextFull

SpecMultiUnit == InitMultiUnit /\ [][NextMultiUnit]_vars

\* ---------------------------------------------------- function or full run
\* The function command and the full run together: the runs in which a
\* named function is extracted.
InitFunctionOrFull == InitFunction \/ InitFull

NextFunctionOrFull == NextFunction \/ NextFull

SpecFunctionOrFull == InitFunctionOrFull /\ [][NextFunctionOrFull]_vars

\* ================================================================== claims
\* ------------------------------------------------------------------- C1
\* C1 (for the original analyzer): every call of analyze_code_snippet
\* returns an analysis result whose findings value is a sequence, possibly
\* empty, never absent and never null, whatever the backend replied.
C1_FindingsAlwaysASequence ==
  (analyzer = "original" /\ ncalls > 0) =>
     (result.shape = "analysis_result" /\ result.findings.tag = "list")

\* ------------------------------------------------------------------- C2
\* The reply has the expected structured shape: an object carrying a
\* findings array.
ExpectedShape(reply) == reply.kind = "content_object" /\ reply.findings.tag = "list"

C10_ExactlyTheTaxTemplates ==
  (analyzer = "original" /\ ncalls > 0 /\ ForcedFailure(call)
     /\ KeywordIn("tax", description)) =>
     result.findings = ListValue(TaxFindings)

OtherKeyword(desc) ==
  KeywordIn("reflection", desc) \/ KeywordIn("transfer", desc) \/ KeywordIn("_update", desc)

\* C10 as amended: for a description with a taxation keyword and a forced
\* backend failure, the fallback's findings hold the two taxation templates
\* (timestamp dependence, then tax-rate boundary condition) once, in that
\* order, after the reflection templates and before the balance-update
\* template that the description's other keywords select; they are exactly
\* the two when the description has no other keyword; and they are the same
\* on every run with the same description.
C10_TaxTemplatesEveryRun ==
  (analyzer = "original" /\ ncalls > 0 /\ ForcedFailure(call)
     /\ KeywordIn("tax", description)) =>
     LET items == result.findings.items
         tax == {i \in 1..Len(items) : items[i] \in Range(TaxFindings)}
     IN /\ result.findings.tag = "list"
        /\ Cardinality(tax) = 2
        /\ \E i \in 1..Len(items) : tax = {i, i + 1} /\ SubSeq(items, i, i + 1) = TaxFindings
        /\ \A i \in 1..Len(items) :
             /\ (i < CHOOSE m \in tax : \A n \in tax : m <= n) =>
                   items[i] \in Range(ReflectionFindings)
             /\ (i > CHOOSE m \in tax : \A n \in tax : m >= n) =>
                   items[i] \in Range(TransferFindings)
        /\ ~OtherKeyword(description) => items = TaxFindings
        /\ \A f \in fallbacks : f = result.findings

\* Two forced failures in a row, the description holding a taxation keyword
\* and the reflection keyword.
C10_Witness ==
  /\ analyzer = "original" /\ ncalls > 1 /\ ForcedFailure(call)
  /\ KeywordIn("tax", description) /\ KeywordIn("reflection", description)
  /\ fallbacks = {result.findings}
  /\ Len(result.findings.items) = 4

\* ------------------------------------------------------------------- C7
\* The line holds the declaration token of the function named name (and not
\* that of a function whose name only begins with it).
DeclaresExactly(name, line) ==
  \E k \in 1..Len(line) : line[k] = FunctionToken(name)

\* Opening minus closing delimiters of lines d..c.
RECURSIVE Nesting(_, _, _)
Nesting(lines, d, c) ==
  IF c < d THEN 0
  ELSE Nesting(lines, d, c - 1) + Count(lines[c], "{") - Count(lines[c], "}")

DeclarationLines(lines, name) == {d \in 1..Len(lines) : DeclaresExactly(name, lines[d])}

FirstDeclaration(lines, name) ==
  CHOOSE d \in DeclarationLines(lines, name) : \A e \in DeclarationLines(lines, name) : d <= e

\* The lines at which the counter, started at the declaration line d, is
\* back at zero.
ClosingLines(lines, d) ==
  {c \in d..Len(lines) : Nesting(lines, d, c) = 0 /\ \E j \in d..c : Count(lines[j], "{") > 0}

\* The span the claim describes: from the declaration line through the
\* first line at which the counter is back at zero.
BalancedSpan(lines, name) ==
  LET d == FirstDeclaration(lines, name)
      c == CHOOSE m \in ClosingLines(lines, d) : \A n \in ClosingLines(lines, d) : m <= n
  IN Join(SubSeq(lines, d, c))

\* The source declares the function, no other declaration in it begins with
\* the name, and the function's block is closed.
HasBalancedSpan(lines, name) ==
  /\ lines # Unreadable
  /\ DeclarationLines(lines, name) # {}
  /\ \A d \in 1..Len(lines) : \A k \in 1..Len(lines[d]) : \A n \in FunctionNames :
        (lines[d][k] \in {FunctionToken(n), ArrowToken(n)} /\ IsPrefix(name, n)) =>
           lines[d][k] = FunctionToken(name)
  /\ ClosingLines(lines, FirstDeclaration(lines, name)) # {}

\* C7: for a brace-delimited source, the unit sent for a named function is
\* exactly the span from the declaration line through the first line at
\* which the nesting counter, closers on the declaration line included, is
\* back at zero.
C7_ExtractsTheBalancedSpan ==
  (pc \in {"done", "raised"} /\ command = "function" /\ extension \in BraceExtensions
     /\ HasBalancedSpan(source, function_name)) =>
     (Len(requests) = 1 /\ requests[1].code = BalancedSpan(source, function_name))

\* ------------------------------------------------------------------- C8
\* The name occurs in the source: some line declares a function whose name
\* begins with it.
NameOccurs(lines, name) ==
  \E d \in 1..Len(lines) : \E k \in 1..Len(lines[d]) : \E n \in FunctionNames :
     /\ lines[d][k] \in {FunctionToken(n), ArrowToken(n)}
     /\ IsPrefix(name, n)

HasText(lines) == lines # Unreadable /\ ReadCodeFile(lines) # <<>>

\* C8 as stated: when the function name does not occur in the source, the
\* function workflow reports "not found", sends no request and writes no
\* report.
C8_AbsentNameSendsNothing ==
  (pc \in {"done", "raised"} /\ command = "function" /\ HasText(source)
     /\ ~NameOccurs(source, function_name)) =>
     (requests = <<>> /\ files = <<>> /\ log = <<"not_found">>)

\* The requests and reports of unit k of the full run.
UnitRequests(k) == {j \in 1..Len(requests) : requests[j].description = UnitDescription(k)}
UnitFiles(k) == {j \in 1..Len(files) : files[j].name = ReportFileName(UnitReportName(k), clock)}

\* C8 as amended: when the function name does not occur in the source, the
\* function workflow of the original analyzer, and that of the enhanced
\* analyzer for a .sol or .js file, reports "not found", sends no request
\* and writes no report; for a file of another extension the enhanced
\* analyzer does not look for the function: it sends the whole file and
\* writes the file's report.  In the full run a function that is not found
\* gives no request and no report, and the units after it are still
\* analysed.
C8_AbsentNameSendsNothingWhereExtracted ==
  /\ (pc \in {"done", "raised"} /\ command = "function" /\ HasText(source)
        /\ ~NameOccurs(source, function_name)) =>
       IF analyzer = "original" \/ extension \in BraceExtensions
       THEN requests = <<>> /\ files = <<>> /\ log = <<"not_found">>
       ELSE /\ Len(requests) = 1 /\ requests[1].code = Join(source)
            /\ Len(files) = 1
            /\ files[1].name = ReportFileName(FileStem(extension), clock)
  /\ (command = "full" /\ HasText(dove_contract)) =>
       /\ \A k \in {3, 4} :
            (Len(analyses) >= k /\ ~NameOccurs(dove_contract, UnitFunction(k))) =>
               (analyses[k] = None /\ UnitRequests(k) = {} /\ UnitFiles(k) = {})
       /\ (Len(analyses) < UnitCount) => pc = "analyze"
       /\ (pc # "analyze") => Len(analyses) = UnitCount

\* The full run over a DOVE.sol that declares getEarlySellTaxFor and not
\* _update: the third unit is not found and the fourth is analysed and saved.
C8_Witness ==
  /\ command = "full" /\ pc = "done" /\ Len(analyses) = UnitCount
  /\ ~NameOccurs(dove_contract, UnitFunction(3))
  /\ analyses[3] = None
  /\ analyses[4] # None
  /\ UnitRequests(4) # {} /\ UnitFiles(4) # {}

\* ------------------------------------------------------------------- C9
\* The rows the findings of analysis k call for: one for each finding whose
\* rendered severity is High or Medium.
RECURSIVE CriticalOf(_, _, _)
CriticalOf(items, i, report_name) ==
  IF i > Len(items) THEN <<>>
  ELSE (IF SeverityOf(items[i]) \in {"high", "medium"}
        THEN << [report |-> report_name,
                 title |-> IntToText(i) \o <<". ">> \o TitleOf(items[i]),
                 severity |-> <<Capitalize(SeverityOf(items[i]))>>] >>
        ELSE <<>>)
       \o CriticalOf(items, i + 1, report_name)

RECURSIVE ExpectedCritical(_)
ExpectedCritical(k) ==
  IF k > Len(analyses) THEN <<>>
  ELSE (IF analyses[k] = None THEN <<>>
        ELSE CriticalOf(analyses[k].findings.items, 1, UnitReportName(k)))
       \o ExpectedCritical(k + 1)

\* C9: the cross-cut table of the consolidated report has exactly one row
\* for each finding, over all folded reports, whose rendered severity is
\* High or Medium, and no other row, whatever the findings' titles and
\* descriptions hold.
C9_CriticalTableIsExact ==
  pc = "done" => critical = ExpectedCritical(1)

\* ------------------------------------------------------------------- C3
\* The summary document of the run has been written.
SummaryWritten ==
  \E j \in 1..Len(files) :
     files[j].name = (IF command = "full" THEN ConsolidatedName(clock) ELSE report_path)

\* C3: in a run over several units (batch, project, the original's full
\* run) no failure of a single unit aborts the run: the run ends having
\* gone through every unit and having written its summary document.
C3_NoUnitFailureAbortsTheRun ==
  (command \in {"batch", "project", "full"} /\ pc \in {"done", "raised"}) =>
     (pc = "done" /\ SummaryWritten)

\* ------------------------------------------------------------------- C4
\* The files discovery finds eligible.
Eligible == Walk(directory, directory.name, EffectiveExcludes(exclude_patterns)).code_files

Min(a, b) == IF a < b THEN a ELSE b

\* C4 as stated: a project run that discovers n eligible files sends
\* exactly min(n, 5) requests and prints the warning exactly when n > 5; a
\* batch run whose n listed files all exist sends n requests.
C4_CapOnlyInProject ==
  /\ (command = "project" /\ pc = "done") =>
       /\ Len(requests) = Min(Len(Eligible), FileCap)
       /\ ("limit_warning" \in Range(log)) <=> (Len(Eligible) > FileCap)
  /\ (command = "batch" /\ pc \in {"done", "raised"} /\ "missing" \notin Range(observed)) =>
       Len(requests) = Len(file_list)

\* The requests a run sends for the files at paths, found as in found: one
\* for each file that has text, in order.
RECURSIVE UnitsSent(_, _)
UnitsSent(paths, found) ==
  IF Len(paths) = 0 \/ Len(found) = 0 THEN <<>>
  ELSE (IF found[1] = "text"
        THEN <<Request(CodeOf(paths[1]), <<"Analysis of file: ">> \o paths[1])>>
        ELSE <<>>)
       \o UnitsSent(Tail(paths), Tail(found))

\* C4 as amended: the cap is on the files a project run reads, not on the
\* units it sends.  A project run that discovers n eligible files reads the
\* first min(n, 5) of them and sends one request for each of these that
\* has text (exactly min(n, 5) requests only when none of them is empty or
\* unreadable), and it prints the warning exactly when n > 5; a batch run
\* reads every listed file and sends one request for each listed file that
\* exists and has text, with no cap.
C4_CapOnFilesRead ==
  /\ (command = "project" /\ pc = "done" /\ directory # NotADirectory) =>
       /\ code_files = SubSeq(Eligible, 1, Min(Len(Eligible), FileCap))
       /\ Len(observed) = Min(Len(Eligible), FileCap)
       /\ requests = UnitsSent(code_files, observed)
       /\ ("limit_warning" \in Range(log)) <=> (Len(Eligible) > FileCap)
  /\ (command = "batch" /\ pc \in {"done", "raised"}) =>
       /\ Len(observed) = Len(file_list)
       /\ requests = UnitsSent(file_list, observed)
       /\ "limit_warning" \notin Range(log)

\* A project of more files than the cap, the first five of them with text,
\* has ended with five requests and the warning.
C4_Witness ==
  /\ command = "project" /\ pc = "done"
  /\ Len(Eligible) > FileCap
  /\ Len(requests) = FileCap
  /\ "limit_warning" \in Range(log)

\* ------------------------------------------------------------------- C5
\* The name is excluded: an exclusion pattern matches it from its start on
\* (as line 183 tests a directory's name).
ExcludedName(name, patterns) == \E k \in 1..Len(patterns) : ReMatch(patterns[k], name)

Components(path) == Split(path, "/")

\* C5: no path among the files discovery yields has a component that is an
\* excluded directory name (a name an exclusion pattern matches, and so no
\* name that is an entry of the exclusion set), whatever the tree holds.
C5_NoExcludedComponent ==
  (command = "project" /\ pc # "start") =>
     \A i \in 1..Len(code_files) : \A c \in Range(Components(code_files[i])) :
        /\ ~ExcludedName(c, EffectiveExcludes(exclude_patterns))
        /\ c \notin Range(EffectiveExcludes(exclude_patterns))

\* The walk is over, it has yielded files, and the tree holds an excluded
\* directory with a file of an allow-listed extension in it.
C5_Witness ==
  /\ command = "project" /\ pc = "done"
  /\ code_files # <<>>
  /\ \E k \in 1..Len(directory.dirs) :
        /\ ExcludedName(directory.dirs[k].name, EffectiveExcludes(exclude_patterns))
        /\ JsFile \in Range(directory.dirs[k].files)

\* ------------------------------------------------------------------- C6
\* os.path.dirname
DirName(path) ==
  LET at == {k \in 1..Len(path) : path[k] = "/"}
  IN SubSeq(path, 1, (CHOOSE m \in at : \A n \in at : m >= n) - 1)

\* C6: the walk lists no directory below the root whose name an exclusion
\* pattern matches, and no directory below such a directory; and every
\* file the run goes on to read lies in a directory the walk has listed.
C6_ExcludedNeverVisited ==
  (command = "project" /\ pc # "start") =>
     /\ \A i \in 1..Len(visited) : \A c \in Range(Tail(Components(visited[i]))) :
           ~ExcludedName(c, EffectiveExcludes(exclude_patterns))
     /\ \A i \in 1..Len(code_files) : DirName(code_files[i]) \in Range(visited)

\* The walk is over; the tree holds an excluded directory that has a
\* directory with a file below it, and a directory that is not excluded and
\* has been listed.
C6_Witness ==
  /\ command = "project" /\ pc = "done"
  /\ \E k \in 1..Len(directory.dirs) :
        /\ ExcludedName(directory.dirs[k].name, EffectiveExcludes(exclude_patterns))
        /\ directory.dirs[k].dirs # <<>>
        /\ JoinPath(directory.name, directory.dirs[k].name) \notin Range(visited)
  /\ Len(visited) > 1

\* ------------------------------------------------------------------- C11
\* C11: every finding of a result save_report has been called with has a
\* severity among high, medium, low and info, whatever label the reply
\* carried for it.
C11_HandledSeveritiesAreKnown ==
  command = "full" =>
    \A k \in 1..idx : analyses[k] # None =>
       \A i \in 1..Len(analyses[k].findings.items) :
          SeverityOf(analyses[k].findings.items[i]) \in Severities

\* ------------------------------------------------------------------- C12
\* C12: every call of analyze_code_snippet sends one request and no more;
\* after an attempt that failed the call returns its fallback (the
\* simulated result of the original analyzer, the error document of the
\* enhanced one) without a second request.
C12_OneRequestPerDispatch ==
  /\ Len(requests) = ncalls
  /\ ncalls > 0 => requests[ncalls] = Request(call.code, description)
  /\ (ncalls > 0 /\ call.reply.kind \in FailureKinds) =>
       IF analyzer = "original"
       THEN result = _simulate_analysis_response(description, call.focus_areas, call.code,
                                                 ncalls)
       ELSE result.shape = "document" /\ result.error # ""

\* Two calls have been made, the second one's attempt failed, and two
\* requests have been sent.
C12_Witness ==
  /\ ncalls = 2 /\ Len(requests) = 2
  /\ call.reply.kind = "transport_error"
  /\ analyzer = "original"
  /\ result.status = "success"

\* ------------------------------------------------------------------- C13
\* C13: when neither the --api-key option nor the environment variable
\* holds a non-empty credential, the process exits with a non-zero status
\* as soon as the analyzer is constructed, and nothing has been done: the
\* output directory is not made, no source file has been read (a read
\* leaves a message or a request), no request sent, no report written.
C13_NoCredentialNoWork ==
  (api_key \in {NotGiven, ""} /\ env_key \in {NotGiven, ""}) =>
     /\ pc \in {"main", "exited"}
     /\ pc = "exited" => exit_status = <<1>>
     /\ pc = "main" => exit_status = Running /\ log = <<>>
     /\ output_dir_made = FALSE
     /\ requests = <<>> /\ files = <<>> /\ returned = NoResult
     /\ \A i \in 1..Len(log) : log[i] = "no_api_key"

\* The process has exited for want of a credential, the option given empty.
C13_Witness ==
  /\ pc = "exited" /\ exit_status = <<1>>
  /\ api_key = "" /\ env_key = NotGiven
  /\ output_dir_made = FALSE

\* ------------------------------------------------------------------- C14
\* C14: in a multi-file run, between two successive requests to the
\* backend the fixed delay elapses in full: a request is sent no earlier
\* than SleepSeconds after the one before it.
C14_DelayBetweenDispatches ==
  \A k \in 1..(Len(sent_at) - 1) : sent_at[k + 1] >= sent_at[k] + SleepSeconds

\* ------------------------------------------------------------------- C18
\* The names of the per-unit report files in the output directory.
UnitReportNames == {files[i].name : i \in {j \in 1..Len(files) : files[j].doc # NoResult}}

\* C18: in the project and batch runs every analyzed unit has exactly one
\* per-unit report file in the output directory: as many files as units
\* analyzed, none of them written over by the report of another unit.
C18_OneReportPerUnit ==
  command \in {"project", "batch"} =>
    /\ Cardinality(UnitReportNames) = Len(requests)
    /\ \A i, j \in 1..Len(files) :
         (files[i].doc # NoResult /\ files[i].name = files[j].name)
            => files[i].doc = files[j].doc

\* ------------------------------------------------------------------- C15
\* A workflow of the enhanced analyzer has completed with a unit analyzed.
CompletedWithAUnit == analyzer = "enhanced" /\ pc = "done" /\ requests # <<>>

\* The paths of the reports in the output directory.
WrittenPaths == {files[i].name : i \in 1..Len(files)}

\* C15 (as stated): a workflow that completes with at least one unit
\* analyzed has written a report and returns the paths of the reports it
\* wrote: what it returns is a path, and every report written is returned.
C15_ReturnsThePathsWritten ==
  CompletedWithAUnit =>
    /\ files # <<>>
    /\ IF command \in {"project", "batch"}
       THEN {report_path} = WrittenPaths
       ELSE returned.shape = "path"

\* C15 (amended): such a workflow has written a report; the file,
\* function and ui workflows return the analysis text they wrote into
\* their one report, the project and batch workflows return the path of
\* the summary report, which they wrote last, after the per-unit reports.
C15_ReportWrittenTextOrSummaryPathReturned ==
  CompletedWithAUnit =>
    /\ files # <<>>
    /\ command \in {"file", "ui", "function"} =>
         /\ Len(files) = 1
         /\ returned.shape = "document"
         /\ files[1].doc = returned
    /\ command \in {"project", "batch"} =>
         /\ report_path = files[Len(files)].name
         /\ files[Len(files)].doc = NoResult
         /\ UnitReportNames # {}
         /\ report_path \notin UnitReportNames

\* The ui workflow has analyzed its file and returned the text it wrote.
C15_Witness ==
  /\ command = "ui" /\ pc = "done" /\ Len(requests) = 1
  /\ Len(files) = 1 /\ files[1].doc = returned
  /\ returned.content = "content_not_json"

\* ------------------------------------------------------------------- C16
\* A body that ends at the first line indented no deeper than the
\* declaration.
RECURSIVE BodyEndByIndentation(_, _, _)
BodyEndByIndentation(lines, k, depth) ==
  IF k + 1 >= Len(lines) THEN k
  ELSE IF lines[k + 1] = <<>>
          \/ (Len(lines[k + 1]) >= depth /\ \A i \in 1..depth : lines[k + 1][i] = Indent)
  THEN BodyEndByIndentation(lines, k + 1, depth)
  ELSE k

\* The unit that closes at the first line after the declaration whose
\* indentation is no deeper than the declaration's.
UnitByIndentation(lines, name) ==
  LET at == DefSearch(lines, name)
      d == at[1]
  IN WithNewlines(<<SubSeq(lines[d], at[2], Len(lines[d]))>>
                  \o SubSeq(lines, d + 1, BodyEndByIndentation(lines, d, at[2])))

\* C16: the unit extracted from a Python source, and sent to the backend,
\* closes at the first line after the declaration that is indented no
\* deeper than the declaration, also for an indented declaration: a
\* sibling method of a method is not part of the unit.
C16_ClosesAtDeclarationIndentation ==
  (command = "function" /\ analyzer = "enhanced" /\ extension = "py" /\ requests # <<>>)
     => requests[1].code = UnitByIndentation(source, function_name)

\* ------------------------------------------------------------------- C17
\* The same directory, its files enumerated by the file system in any
\* other order.
Reenumerated(tree) == {Dir(tree.name, tree.dirs, fs) : fs \in Orderings(Range(tree.files))}

\* C17: the files the project run goes on with are the same, in the same
\* order, whatever order the file system enumerates the directory's
\* entries in: a second run over the same tree with the same patterns
\* finds the sequence this run found, and keeps the same files under the cap.
C17_DiscoveryIsOrderStable ==
  (command = "project" /\ pc # "start" /\ directory # NotADirectory) =>
     \A tree \in Reenumerated(directory) :
        CapFiles(Walk(tree, tree.name, EffectiveExcludes(exclude_patterns)).code_files)
          = code_files

\* ------------------------------------------------------------------- C19
\* C19: every path of the discovered sequence ends with an extension of
\* the allow-list, and no exclusion pattern matches the path anywhere.
C19_OnlyAllowedAndNotExcluded ==
  command = "project" =>
    \A k \in 1..Len(code_files) :
       /\ \E ext \in AllowedExtensions : EndsWith(code_files[k], ext)
       /\ \A p \in 1..Len(EffectiveExcludes(exclude_patterns)) :
             ~ReSearch(EffectiveExcludes(exclude_patterns)[p], code_files[k])

\* Discovery has gone through a root listing that holds a file with no
\* allowed extension and a file an exclusion pattern matches, and has kept
\* a file.
C19_Witness ==
  /\ command = "project" /\ pc = "unit"
  /\ ReadmeFile \in Range(directory.files)
  /\ DistJsFile \in Range(directory.files)
  /\ JoinPath(directory.name, JsFile) \in Range(code_files)
  /\ JoinPath(directory.name, ReadmeFile) \notin Range(code_files)
  /\ JoinPath(directory.name, DistJsFile) \notin Range(code_files)

\* ------------------------------------------------------------------- C20
\* The units of the project or batch run, in order.
RunUnits == IF command = "batch" THEN file_list ELSE code_files

\* The states of a file that give no text and an error.
NoFile == {"unreadable", "missing"}

\* C20: a unit whose file is unreadable or absent is skipped: the error is
\* logged, no request is sent for it, no per-unit report is written for
\* it, and the run goes on through its units (it ends early at no unit).
C20_UnreadableUnitIsSkipped ==
  /\ command \in {"project", "batch"} =>
       /\ Len(observed) = idx
       /\ pc \in {"done", "raised"} => idx = Len(RunUnits)
       /\ Cardinality({i \in 1..Len(log) : log[i] \in {"read_error", "file_not_found"}})
            = Cardinality({k \in 1..Len(observed) : observed[k] \in NoFile})
       /\ \A k \in 1..Len(observed) : observed[k] \in NoFile =>
            /\ \A r \in 1..Len(requests) : requests[r].code # CodeOf(RunUnits[k])
            /\ \A f \in 1..Len(files) :
                 ~IsPrefix(Underscored(BaseName(RunUnits[k])) \o <<"_">>, files[f].name)
  /\ command = "full" =>
       /\ pc \in {"save", "consolidate", "done", "raised"} => Len(analyses) = UnitCount
       /\ \A k \in 1..Len(analyses) : UnitFile(k) = Unreadable =>
            /\ analyses[k] = None
            /\ \E i \in 1..Len(log) : log[i] = "read_error"
            /\ \A r \in 1..Len(requests) : requests[r].description # UnitDescription(k)
            /\ \A f \in 1..Len(files) :
                 files[f].name # ReportFileName(UnitReportName(k), clock)

\* A batch run has found its first file unreadable, logged it, and gone on
\* to analyze the second.
C20_Witness ==
  /\ command = "batch" /\ Len(observed) >= 2
  /\ observed[1] = "unreadable" /\ observed[2] = "text"
  /\ log[1] = "read_error"
  /\ Len(requests) = 1 /\ requests[1].code = CodeOf(file_list[2])
  /\ Len(files) = 1

\* ------------------------------------------------------------------- C21
\* C21: every backend request returning or failing, a project or batch
\* run ends (completed, or with the error of its report); a project run
\* has sent at most FileCap requests and a batch run at most one for each
\* path of its list.
C21_RunsTerminate ==
  /\ [](/\ command = "project" => Len(requests) <= FileCap
        /\ command = "batch" => Len(requests) <= Len(file_list))
  /\ <>(pc \in {"done", "raised"})

\* A project run over more files than the cap has ended with FileCap
\* requests sent, some of them failed.
C21_Witness ==
  /\ command = "project" /\ pc = "done"
  /\ Len(directory.files) > FileCap
  /\ Len(requests) = FileCap
  /\ \E k \in 1..Len(results) : results[k][2].error # ""

\* ------------------------------------------------------------------- C22
\* save_report has rendered the result of the "file" command in full.
Rendered == command = "file" /\ analyzer = "original" /\ pc = "done" /\ files # <<>>

\* The places of a text where a run of tokens occurs.
Positions(sub, text) == {p \in 1..Len(text) : OccursAt(sub, text, p)}

\* The heading of section i, written for finding f.
Heading(i, f) == <<H3>> \o IntToText(i) \o <<". ">> \o TitleOf(f) \o <<NL, NL>>

\* The length of the sections of the findings from number i on.
RECURSIVE SectionsLength(_, _)
SectionsLength(items, i) ==
  IF i > Len(items) THEN 0
  ELSE Len(FindingSection(items[i], i)) + SectionsLength(items, i + 1)

\* C22: a rendered report holds one detailed section per finding, section
\* i for finding i: what follows the heading "Detailed Findings" is the
\* section numbered 1 of finding 1, then the section numbered 2 of
\* finding 2, and so on to the last finding, where the report ends.
C22_OneSectionPerFindingInOrder ==
  Rendered =>
    LET text == files[1].text
        items == returned.findings.items
        at(i) == Len(text) + 1 - SectionsLength(items, i)
    IN /\ \A i \in 1..Len(items) :
            /\ OccursAt(Heading(i, items[i]), text, at(i))
            /\ OccursAt(FindingSection(items[i], i), text, at(i))
       /\ OccursAt(<<NL, "## Detailed Findings", NL, NL>>, text, at(1) - 4)
       /\ Cardinality(Positions(<<NL, "## Detailed Findings", NL, NL>>, text)) = 1

\* A report has been rendered from two findings that differ.
C22_Witness ==
  /\ Rendered
  /\ Len(returned.findings.items) = 2
  /\ returned.findings.items[1].title # returned.findings.items[2].title
  /\ returned.findings.items[1].severity # returned.findings.items[2].severity

\* The number of findings of a severity, one with no severity taken as info.
FindingsOfSeverity(items, sev) ==
  Cardinality({i \in 1..Len(items) :
                 \/ items[i].severity = sev
                 \/ sev = "info" /\ items[i].severity = "absent"})

HistogramRow(label, n) == <<"| ", label, " | ">> \o IntToText(n) \o <<" |", NL>>

\* C23: in a rendered report the severity histogram has the four rows
\* high, medium, low, info and no other between the head of the table and
\* the heading of the detailed findings; each count is the number of
\* findings of that severity, a finding with no severity counted as info,
\* and the four counts sum to the number of findings.
C23_HistogramCountsFindings ==
  Rendered =>
    LET text == files[1].text
        items == returned.findings.items
        n(sev) == FindingsOfSeverity(items, sev)
        table == <<"## Summary", NL, NL, "| Severity | Count |", NL,
                   "|----------|-------|", NL>>
                 \o HistogramRow("High", n("high")) \o HistogramRow("Medium", n("medium"))
                 \o HistogramRow("Low", n("low")) \o HistogramRow("Info", n("info"))
                 \o <<NL, "## Detailed Findings", NL, NL>>
    IN /\ Cardinality(Positions(table, text)) = 1
       /\ Cardinality(Positions(<<"## Summary", NL, NL>>, text)) = 1
       /\ n("high") + n("medium") + n("low") + n("info") = Len(items)

C23_Witness ==
  /\ Rendered
  /\ Len(returned.findings.items) = 2
  /\ returned.findings.items[1].severity = "absent"
  /\ returned.findings.items[2].severity = "high"
  /\ IsSubstring(HistogramRow("Info", 1), files[1].text)
  /\ IsSubstring(HistogramRow("High", 1), files[1].text)

\* The full run has written its consolidated report, the last file.
Consolidated == command = "full" /\ pc = "done" /\ files # <<>>

TocEntry(name) ==
  <<"- [">> \o ReportBaseName(name) \o <<"](#">> \o Anchor(ReportBaseName(name))
  \o <<")", NL>>

RECURSIVE TocEntries(_, _)
TocEntries(names, k) ==
  IF k > Len(names) THEN <<>> ELSE TocEntry(names[k]) \o TocEntries(names, k + 1)

\* A text after its first two line ends.
AfterTwoLines(text) ==
  LET ends == {i \in 1..Len(text) : text[i] = NL}
      first == CHOOSE i \in ends : \A j \in ends : i <= j
      second == CHOOSE i \in ends \ {first} : \A j \in ends \ {first} : i <= j
  IN IF Cardinality(ends) < 2 THEN <<>> ELSE SubSeq(text, second + 1, Len(text))

\* What the consolidated report holds of a per-unit report under a
\* heading of the report's file name: all of it, or all after its title.
WholeUnder(name) ==
  <<NL, "## ">> \o ReportBaseName(name) \o <<NL, NL>> \o FileContent(name) \o <<NL, NL>>
BodyUnder(name) ==
  <<NL, "## ">> \o ReportBaseName(name) \o <<NL, NL>> \o AfterTwoLines(FileContent(name))
  \o <<NL, NL>>

RECURSIVE BodiesLength(_, _)
BodiesLength(names, k) ==
  IF k > Len(names) THEN 0 ELSE Len(BodyUnder(names[k])) + BodiesLength(names, k + 1)

\* The report name a report file's name begins with.
UnitReportNameOf(name) == <<name[1]>>

\* The table of contents of the consolidated report has one entry per
\* report, in input order, and comes before the cross-cut table.
TocInInputOrder(text) ==
  LET toc == <<"## Table of Contents", NL, NL>> \o TocEntries(reports, 1)
             \o <<NL, "## Critical Findings Summary", NL, NL>>
  IN Cardinality(Positions(toc, text)) = 1

\* C24 as stated: the consolidated report holds, in input order, one
\* table-of-contents entry per report and, after the cross-cut table, the
\* full text of every per-unit report, no line of it omitted.
C24_EveryReportInFull ==
  Consolidated =>
    LET text == files[Len(files)].text
    IN /\ TocInInputOrder(text)
       /\ \A k \in 1..Len(reports) : IsSubstring(FileContent(reports[k]), text)

\* C24 amended: the consolidated report holds, in input order, one
\* table-of-contents entry per report and, after the cross-cut table and
\* to its end, one part per report in input order: a heading of the
\* report's file name, then the report's text from its third line on (its
\* title line and the empty line after it are left out), no other line
\* omitted.
C24_EveryReportAfterItsTitle ==
  Consolidated =>
    LET text == files[Len(files)].text
        at(k) == Len(text) + 1 - BodiesLength(reports, k)
        toc == CHOOSE p \in Positions(<<NL, "## Critical Findings Summary", NL, NL>>, text) :
                 TRUE
    IN /\ TocInInputOrder(text)
       /\ toc < at(1)
       /\ \A k \in 1..Len(reports) :
            /\ OccursAt(BodyUnder(reports[k]), text, at(k))
            /\ FileContent(reports[k]) =
                 <<"# O3 Analysis Report: ">> \o UnitReportNameOf(reports[k]) \o <<NL, NL>>
                 \o AfterTwoLines(FileContent(reports[k]))

C24_Witness ==
  /\ Consolidated
  /\ Len(reports) = UnitCount
  /\ \E k \in 1..Len(reports) : IsSubstring(<<H3>>, FileContent(reports[k]))
  /\ IsSubstring(BodyUnder(reports[UnitCount]), files[Len(files)].text)
  /\ ~IsSubstring(WholeUnder(reports[UnitCount]), files[Len(files)].text)

\* C25: the unit text sent to the backend for a named function is a
\* contiguous span of the raw source text, nothing prepended, repeated or
\* inserted, and for a whole-file target (a file the enhanced analyzer has
\* no pattern for) it is the entire text.
C25_UnitIsASpanOfTheSource ==
  (command = "function" /\ requests # <<>>) =>
    /\ IsSubstring(requests[1].code, Join(source))
    /\ (analyzer = "enhanced" /\ extension \notin PatternExtensions) =>
         requests[1].code = Join(source)

\* The nesting counter at line c, started once at the declaration line d
\* with that line's opening delimiters.
RECURSIVE CounterFrom(_, _, _)
CounterFrom(lines, d, c) ==
  IF c <= d THEN Count(lines[d], "{")
  ELSE CounterFrom(lines, d, c - 1) + Count(lines[c], "{") - Count(lines[c], "}")

\* The last line of the unit that starts at line d: the first later line at
\* which the counter is at zero or below, or the last line of the source.
UnitEnd(lines, d) ==
  LET closed == {c \in (d + 1)..Len(lines) : CounterFrom(lines, d, c) <= 0}
  IN IF closed = {} THEN Len(lines) ELSE CHOOSE c \in closed : \A e \in closed : c <= e

\* C26: for a named-function target N the original analyzer's unit starts
\* at the first line that carries the declaration of the function named N,
\* not at a line declaring a function whose name only begins with N, and
\* runs to the line where the counter started at that line closes: a later
\* line of the unit that repeats the declaration does not restart the
\* counter.
C26_StartsAtTheDeclarationOfN ==
  (command = "function" /\ analyzer = "original" /\ requests # <<>>) =>
    /\ DeclarationLines(source, function_name) # {}
    /\ LET d == FirstDeclaration(source, function_name)
       IN requests[1].code = Join(SubSeq(source, d, UnitEnd(source, d)))

\* The original analyzer answered the last call with its fallback.
FellBack == analyzer = "original" /\ ncalls > 0 /\ call.reply.kind # "content_object"

\* C27: the fallback result is given by the description alone: its status
\* is success and its findings are, in the order reflection, taxation,
\* balance-update, the template groups (of 2, 2 and 1 findings) whose
\* keyword occurs in the lower-cased description, none when no keyword
\* occurs; the code and the focus areas of the call do not change it, so
\* every fallback of a run has the same findings.
C27_FallbackGivenByDescription ==
  FellBack =>
    LET refl == KeywordIn("reflection", description)
        tax == KeywordIn("tax", description)
        upd == KeywordIn("transfer", description) \/ KeywordIn("_update", description)
        items == result.findings.items
    IN /\ result.shape = "analysis_result" /\ result.status = "success"
       /\ result.findings.tag = "list"
       /\ Len(items) = (IF refl THEN 2 ELSE 0) + (IF tax THEN 2 ELSE 0)
                       + (IF upd THEN 1 ELSE 0)
       /\ items = (IF refl THEN ReflectionFindings ELSE <<>>)
                  \o (IF tax THEN TaxFindings ELSE <<>>)
                  \o (IF upd THEN TransferFindings ELSE <<>>)
       /\ \A f \in fallbacks : f = result.findings

\* A second fallback in a row, for a call with focus areas and a
\* description whose capitalised word holds the taxation keyword and which
\* names _update: the three findings of the two groups.
C27_Witness ==
  /\ FellBack /\ ncalls > 1
  /\ call.focus_areas # <<>>
  /\ description = <<"Tax", "_update">>
  /\ fallbacks # {}
  /\ result.findings.items = TaxFindings \o TransferFindings

\* C28: the function workflow reports "not found" only when the
\* declaration of the named function is absent from the source: for every
\* brace-delimited source that holds the declaration with a balanced body,
\* whatever the depth of the blocks inside the body, it extracts a unit
\* and sends it.
C28_DeclaredFunctionIsExtracted ==
  (pc \in {"done", "raised"} /\ command = "function" /\ extension \in BraceExtensions
     /\ HasBalancedSpan(source, function_name)) =>
     /\ \A k \in 1..Len(log) : log[k] # "not_found"
     /\ Len(requests) = 1
=========================================================================
